---- MODULE Spec2Model ----
(***************************************************************************)
(* NSEStockAnalysis: the signal-collection and scoring pipeline.           *)
(*                                                                         *)
(*   SpecScore    one row through _assess_pe, _score_row and the flag map  *)
(*                (src/src/fundamentals/report.py)                         *)
(*   SpecFund     runs of generate_fundamentals_report over its files      *)
(*   SpecMerge    _merge_with_cache of a raw file with itself              *)
(*   SpecNews     runs of generate_30d_news_and_ceo_reports over its files *)
(*                (src/src/news/report.py)                                 *)
(*   SpecCollect  calls of the two thread-pool collectors                  *)
(*                (src/src/news/fetcher.py, src/src/fundamentals/fetcher.py)*)
(*   SpecPolicy   runs of generate_policy_benefit_report over its files     *)
(*                (src/src/news/policy_report.py)                          *)
(*   SpecUnit     single calls of _bucket, analyze and _vibe                *)
(*   SpecRetry    calls of fetch_single_fundamental, attempt by attempt;    *)
(*                SpecRetryFair adds that a started call is run on          *)
(*   SpecNewsPrior   SpecNews over output paths that hold anything before   *)
(*   SpecMedian      the ranking step over any industry and trailing P/E    *)
(*   SpecPolicyMany  SpecPolicy over many source rows of one symbol         *)
(*                                                                         *)
(* Numbers are fixed-point integers:                                       *)
(*   trailing_pe, forward_pe, industry_median_pe, peg_ratio   tenths       *)
(*   return_on_equity, profit_margins, sentiments             hundredths   *)
(*   debt_to_equity, promoter_holding_proxy_pct, market_cap   units        *)
(* An optional value (None / NaN in a column) is the empty tuple, a        *)
(* present value v is the one-element tuple <<v>>.                         *)
(***************************************************************************)
EXTENDS Integers, Sequences, FiniteSets, TLC

VARIABLES
    spc,      \* SpecScore: how far the row has come: "input", "assessed", "scored", "flagged"
    srow,     \* SpecScore: the row of df, with the columns computed so far
    fpc,              \* generate_fundamentals_report: position of the run
    f_universe,       \* universe, as _load_universe returned it
    f_fetched,        \* what each symbol's fetch task ended with: a variant, or 0 when it raised
    f_fresh,          \* fresh, as fetch_fundamentals_for_universe returned it
    f_use_cache,      \* use_cache, as read from cfg
    f_cached,         \* the raw file as the merge step found it
    f_df,             \* df, the ranked table in memory
    raw_csv,          \* outputs.raw_fundamentals_csv
    ranked_csv,       \* outputs.ranked_report_csv
    top_csv,          \* outputs.top_picks_csv
    company_sent_csv, \* cfg.company_sentiment_csv
    ceo_sent_csv,     \* cfg.ceo_sentiment_csv
    universe_csv,     \* cfg.universe_csv
    npc,                 \* generate_30d_news_and_ceo_reports: position of the run
    n_universe,          \* the symbols of companies, as _load_companies returned them
    n_force_refresh,     \* force_refresh, as read from news_cfg
    n_company_items,     \* company_items
    n_ceo_items,         \* ceo_items
    n_company_details,   \* company_details, as _analyze_items returned it
    n_ceo_details,       \* ceo_details
    n_write,             \* the last call of _write_output: arguments, file before and after, result
    company_details_csv, \* outputs.company_details_csv
    ceo_details_csv,     \* outputs.ceo_details_csv
    company_summary_csv, \* outputs.company_summary_csv
    ceo_summary_csv,     \* outputs.ceo_summary_csv
    cpc,         \* a collector call: position of the calling thread
    c_kind,      \* "news": fetch_news_for_queries, "fund": fetch_fundamentals_for_universe
    c_keys,      \* the keys, in the order of submission
    c_outcome,   \* what the task of each key does: 0 raises, 1 returns its result
    c_workers,   \* workers
    c_status,    \* each task: "new", "queued", "running" or "done"
    c_yielded,   \* the futures as_completed has yielded
    c_out,       \* all_items / rows
    ppc,                 \* generate_policy_benefit_report: position of the run
    source_details_csv,  \* cfg.source_details_csv
    p_details,           \* details, as read from the source file
    policy_summary_csv,  \* outputs.summary_csv
    policy_evidence_csv, \* outputs.evidence_csv
    upc,      \* SpecUnit: "input" or "applied"
    u_in,     \* SpecUnit: the function applied and its arguments
    u_out,    \* SpecUnit: what it returned
    rpc,         \* fetch_single_fundamental: position of the call
    r_retries,   \* retries
    r_attempt,   \* attempt, the loop variable
    r_info,      \* info
    r_last_err,  \* last_err
    r_log,       \* what each t.info so far did, in order
    r_delays,    \* the arguments of the sleep calls so far, in hundredths of a second
    r_result,    \* what the call returned or raised
    r_merged,    \* the raw table merged from the returned row and a cached file
    r_symbol     \* the symbol fetch_single_fundamental was called with

scoreVars == <<spc, srow>>
fundVars == <<fpc, f_universe, f_fetched, f_fresh, f_use_cache, f_cached, f_df,
              raw_csv, ranked_csv, top_csv, company_sent_csv, ceo_sent_csv,
                   universe_csv>>
newsVars == <<npc, n_universe, n_force_refresh, n_company_items, n_ceo_items, n_company_details,
              n_ceo_details, n_write, company_details_csv, ceo_details_csv,
              company_summary_csv, ceo_summary_csv>>
collVars == <<cpc, c_kind, c_keys, c_outcome, c_workers, c_status, c_yielded, c_out>>
policyVars == <<ppc, source_details_csv, p_details, policy_summary_csv, policy_evidence_csv>>
unitVars == <<upc, u_in, u_out>>
retryVars == <<rpc, r_retries, r_attempt, r_info, r_last_err, r_log, r_delays, r_result, r_merged, r_symbol>>
vars == <<scoreVars, fundVars, newsVars, collVars, policyVars, unitVars, retryVars>>
notScoreVars == <<fundVars, newsVars, collVars, policyVars, unitVars, retryVars>>
notFundVars == <<scoreVars, newsVars, collVars, policyVars, unitVars, retryVars>>
notNewsVars == <<scoreVars, fundVars, collVars, policyVars, unitVars, retryVars>>
notCollVars == <<scoreVars, fundVars, newsVars, policyVars, unitVars, retryVars>>
notPolicyVars == <<scoreVars, fundVars, newsVars, collVars, unitVars, retryVars>>
notUnitVars == <<scoreVars, fundVars, newsVars, collVars, policyVars, retryVars>>
notRetryVars == <<scoreVars, fundVars, newsVars, collVars, policyVars, unitVars>>

---------------------------------------------------------------------------
(* Optional values *)

Absent == <<>>
Some(v) == <<v>>
IsNa(x) == x = <<>>
NotNa(x) == x # <<>>
V(x) == x[1]

Min2(a, b) == IF a <= b THEN a ELSE b
Max2(a, b) == IF a >= b THEN a ELSE b

NoFile == [exists |-> FALSE, columns |-> {}, rows |-> <<>>]
NoFrame == [columns |-> {}, rows |-> <<>>]

\* no row is being scored
ScoreIdle ==
    /\ spc = "input"
    /\ srow = <<>>

NoWrite == [path |-> "", preserve |-> FALSE, new_df |-> NoFrame,
            before |-> NoFile, after |-> NoFile, returned |-> NoFrame]

\* no policy run has started and none of its files exists
PolicyIdle ==
    /\ ppc = "idle"
    /\ source_details_csv = NoFile
    /\ p_details = NoFrame
    /\ policy_summary_csv = NoFile
    /\ policy_evidence_csv = NoFile

\* no function is being applied
UnitIdle ==
    /\ upc = "input"
    /\ u_in = <<>>
    /\ u_out = <<>>

\* no call of fetch_single_fundamental has been made
RetryIdle ==
    /\ rpc = "idle"
    /\ r_symbol = 0
    /\ r_retries = 0
    /\ r_attempt = 0
    /\ r_info = <<>>
    /\ r_last_err = <<>>
    /\ r_log = <<>>
    /\ r_delays = <<>>
    /\ r_result = <<>>
    /\ r_merged = <<>>

\* no collector call has been made
CollIdle ==
    /\ cpc = "idle"
    /\ c_kind = "news"
    /\ c_keys = <<>>
    /\ c_outcome = <<>>
    /\ c_workers = 1
    /\ c_status = <<>>
    /\ c_yielded = {}
    /\ c_out = <<>>

\* no news run has started and no news file exists
NewsIdle ==
    /\ npc = "idle"
    /\ n_universe = {}
    /\ n_force_refresh = FALSE
    /\ n_company_items = <<>>
    /\ n_ceo_items = <<>>
    /\ n_company_details = NoFrame
    /\ n_ceo_details = NoFrame
    /\ n_write = NoWrite
    /\ company_details_csv = NoFile
    /\ ceo_details_csv = NoFile
    /\ company_summary_csv = NoFile
    /\ ceo_summary_csv = NoFile

\* no fundamentals run has started and no file exists
FundIdle ==
    /\ fpc = "idle"
    /\ f_universe = <<>>
    /\ f_fetched = <<>>
    /\ f_fresh = NoFrame
    /\ f_use_cache = FALSE
    /\ f_cached = NoFile
    /\ f_df = NoFrame
    /\ raw_csv = NoFile
    /\ ranked_csv = NoFile
    /\ top_csv = NoFile
    /\ company_sent_csv = NoFile
    /\ ceo_sent_csv = NoFile
    /\ universe_csv = NoFile

---------------------------------------------------------------------------
(* src/src/fundamentals/report.py: _assess_pe *)

\* float("Infinity") in tenths: float(value) of _to_float gives it for a feed
\* value "Infinity" or inf, and only NaN is turned into None
Inf == 1000000

AssessPe_Strict(row) ==
    LET pe == row.trailing_pe
        ind_med == row.industry_median_pe
    IN  IF IsNa(pe) \/ V(pe) <= 0 THEN "unavailable_or_loss_making"
        ELSE IF NotNa(ind_med) /\ V(ind_med) > 0
             THEN IF 10 * V(pe) < 9 * V(ind_med) THEN "undervalued_vs_industry"
                  ELSE IF 10 * V(pe) <= 12 * V(ind_med) THEN "fair_vs_industry"
                  ELSE "overvalued_vs_industry"
        ELSE IF V(pe) <= 150 THEN "low_absolute_pe"
        ELSE IF V(pe) < 250 THEN "mid_absolute_pe"
        ELSE "high_absolute_pe"

\* ratio = pe / ind_med; ratio <= 0.9 is 10*pe <= 9*ind_med for ind_med > 0;
\* inf / inf is NaN, and NaN <= 0.9 and NaN <= 1.2 are both False
AssessPe(row) ==
    LET pe == row.trailing_pe
        ind_med == row.industry_median_pe
    IN  IF IsNa(pe) \/ V(pe) <= 0 THEN "unavailable_or_loss_making"
        ELSE IF NotNa(ind_med) /\ V(ind_med) > 0
             THEN IF V(pe) = Inf /\ V(ind_med) = Inf THEN "overvalued_vs_industry"
                  ELSE IF 10 * V(pe) <= 9 * V(ind_med) THEN "undervalued_vs_industry"
                  ELSE IF 10 * V(pe) <= 12 * V(ind_med) THEN "fair_vs_industry"
                  ELSE "overvalued_vs_industry"
        ELSE IF V(pe) <= 150 THEN "low_absolute_pe"
        ELSE IF V(pe) <= 250 THEN "mid_absolute_pe"
        ELSE "high_absolute_pe"

---------------------------------------------------------------------------
(* src/src/fundamentals/report.py: _score_row.  Each rule is one block of   *)
(* the function: d is what it adds to score, r what it appends to reasons. *)

NoChange == [d |-> 0, r |-> <<>>]
Fired(delta, reason) == [d |-> delta, r |-> <<reason>>]

RulePe(row) ==
    IF row.pe_assessment \in {"undervalued_vs_industry", "low_absolute_pe"}
    THEN Fired(2, "PE favorable")
    ELSE IF row.pe_assessment \in {"fair_vs_industry", "mid_absolute_pe"}
    THEN Fired(1, "PE acceptable")
    ELSE NoChange

RuleForwardPe(row) ==
    LET fpe == row.forward_pe
        tpe == row.trailing_pe
    IN  IF NotNa(fpe) /\ NotNa(tpe) /\ V(fpe) > 0 /\ V(tpe) > 0 /\ V(fpe) < V(tpe)
        THEN Fired(1, "Forward PE improving")
        ELSE NoChange

RulePeg(row) ==
    LET peg == row.peg_ratio
    IN  IF NotNa(peg) /\ V(peg) > 0
        THEN IF V(peg) <= 12 THEN Fired(2, "PEG attractive")
             ELSE IF V(peg) <= 18 THEN Fired(1, "PEG reasonable")
             ELSE NoChange
        ELSE NoChange

RuleRoe(row) ==
    LET roe == row.return_on_equity
    IN  IF NotNa(roe)
        THEN IF V(roe) >= 15 THEN Fired(2, "High ROE")
             ELSE IF V(roe) >= 10 THEN Fired(1, "Decent ROE")
             ELSE NoChange
        ELSE NoChange

RuleMargin(row) ==
    LET margin == row.profit_margins
    IN  IF NotNa(margin) /\ V(margin) >= 10
        THEN Fired(1, "Healthy margins")
        ELSE NoChange

RuleDebt_NoPenalty(row) ==
    LET d2e == row.debt_to_equity
    IN  IF NotNa(d2e) /\ V(d2e) <= 80 THEN Fired(1, "Manageable debt") ELSE NoChange

RuleDebt(row) ==
    LET d2e == row.debt_to_equity
    IN  IF NotNa(d2e)
        THEN IF V(d2e) <= 80 THEN Fired(1, "Manageable debt")
             ELSE IF V(d2e) >= 250 THEN Fired(0 - 1, "High leverage")
             ELSE NoChange
        ELSE NoChange

RulePromoter(row) ==
    LET promoter == row.promoter_holding_proxy_pct
    IN  IF NotNa(promoter)
        THEN IF V(promoter) >= 45 THEN Fired(2, "High insider/promoter proxy")
             ELSE IF V(promoter) >= 25 THEN Fired(1, "Moderate insider/promoter proxy")
             ELSE NoChange
        ELSE NoChange

RuleCompanySentiment(row) ==
    LET c_sent == row.company_news_sentiment
    IN  IF NotNa(c_sent)
        THEN IF V(c_sent) >= 20 THEN Fired(2, "Strong company news sentiment")
             ELSE IF V(c_sent) >= 8 THEN Fired(1, "Positive company news sentiment")
             ELSE IF V(c_sent) <= 0 - 8 THEN Fired(0 - 1, "Negative company news sentiment")
             ELSE NoChange
        ELSE NoChange

RuleCeoSentiment(row) ==
    LET ceo_sent == row.ceo_commentary_sentiment
    IN  IF NotNa(ceo_sent)
        THEN IF V(ceo_sent) >= 15 THEN Fired(1, "Positive CEO sentiment")
             ELSE IF V(ceo_sent) <= 0 - 8 THEN Fired(0 - 1, "Negative CEO sentiment")
             ELSE NoChange
        ELSE NoChange

\* the rule blocks in the order the function runs them
RuleSteps(row) ==
    << RulePe(row), RuleForwardPe(row), RulePeg(row), RuleRoe(row), RuleMargin(row),
       RuleDebt(row), RulePromoter(row), RuleCompanySentiment(row), RuleCeoSentiment(row) >>

RECURSIVE RunSteps(_, _)
\* score += d and reasons.append(r), block after block
RunSteps(steps, acc) ==
    IF steps = <<>> THEN acc
    ELSE RunSteps(Tail(steps),
                  [score |-> acc.score + Head(steps).d, reasons |-> acc.reasons \o Head(steps).r])

\* reasons[:6]
FirstN(s, n) == SubSeq(s, 1, Min2(n, Len(s)))

\* the local verdict of _score_row (computed from score, not returned)
Verdict(score) ==
    IF score >= 8 THEN "High Potential"
    ELSE IF score >= 5 THEN "Watchlist"
    ELSE "Avoid/Needs Work"

\* returns (score, "; ".join(reasons[:6])); the joined string is kept as the
\* sequence of its parts
ScoreRow(row) ==
    LET acc == RunSteps(RuleSteps(row), [score |-> 0, reasons |-> <<>>])
    IN  [score |-> acc.score, reason_summary |-> FirstN(acc.reasons, 6),
         verdict |-> Verdict(acc.score)]

---------------------------------------------------------------------------
(* src/src/fundamentals/report.py: generate_fundamentals_report, the flag *)

ReturnPotentialFlag_Shifted(score) ==
    IF score > 8 THEN "High Potential"
    ELSE IF score >= 5 THEN "Watchlist"
    ELSE "Avoid/Needs Work"

\* np.where(score >= 8, "High Potential", np.where(score >= 5, "Watchlist", ...))
ReturnPotentialFlag(score) ==
    IF score >= 8 THEN "High Potential"
    ELSE IF score >= 5 THEN "Watchlist"
    ELSE "Avoid/Needs Work"

---------------------------------------------------------------------------
(* SpecScore: one row of df through df.apply(_assess_pe), df.apply(_score_row) *)
(* and the flag map, for rows drawn from the sets below.                      *)

Opt(S) == {Absent} \cup {Some(v) : v \in S}

ScoreFields ==
    {"trailing_pe", "industry_median_pe", "forward_pe", "peg_ratio", "return_on_equity",
     "profit_margins", "debt_to_equity", "promoter_holding_proxy_pct",
     "company_news_sentiment", "ceo_commentary_sentiment"}

\* every threshold of the field, the value at it and the value next to it
RichValues ==
    [trailing_pe                |-> Opt({0 - 10, 0, 90, 91, 120, 121, 150, 151, 250, 251}),
     industry_median_pe         |-> Opt({0 - 100, 0, 100}),
     forward_pe                 |-> Opt({0 - 5, 0, 80, 90, 91}),
     peg_ratio                  |-> Opt({0 - 3, 0, 12, 13, 18, 19}),
     return_on_equity           |-> Opt({9, 10, 14, 15}),
     profit_margins             |-> Opt({9, 10}),
     debt_to_equity             |-> Opt({80, 81, 249, 250}),
     promoter_holding_proxy_pct |-> Opt({24, 25, 44, 45}),
     company_news_sentiment     |-> Opt({0 - 9, 0 - 8, 0 - 7, 7, 8, 19, 20}),
     ceo_commentary_sentiment   |-> Opt({0 - 9, 0 - 8, 0 - 7, 14, 15})]

\* one value for each outcome of the field's rule
CoarseValues ==
    [trailing_pe                |-> Opt({90, 100, 130}),
     industry_median_pe         |-> {Some(100)},
     forward_pe                 |-> Opt({80}),
     peg_ratio                  |-> Opt({12, 18}),
     return_on_equity           |-> Opt({10, 15}),
     profit_margins             |-> Opt({10}),
     debt_to_equity             |-> Opt({80, 250}),
     promoter_holding_proxy_pct |-> Opt({25, 45}),
     company_news_sentiment     |-> Opt({0 - 8, 8, 20}),
     ceo_commentary_sentiment   |-> Opt({0 - 8, 15})]

\* absent, or one value that fires the field's rule
PlainValues ==
    [trailing_pe                |-> Opt({90}),
     industry_median_pe         |-> {Some(100)},
     forward_pe                 |-> Opt({80}),
     peg_ratio                  |-> Opt({12}),
     return_on_equity           |-> Opt({15}),
     profit_margins             |-> Opt({10}),
     debt_to_equity             |-> Opt({250}),
     promoter_holding_proxy_pct |-> Opt({45}),
     company_news_sentiment     |-> Opt({0 - 8}),
     ceo_commentary_sentiment   |-> Opt({0 - 8})]

RowsOver(vals) ==
    [trailing_pe : vals.trailing_pe, industry_median_pe : vals.industry_median_pe,
     forward_pe : vals.forward_pe, peg_ratio : vals.peg_ratio,
     return_on_equity : vals.return_on_equity, profit_margins : vals.profit_margins,
     debt_to_equity : vals.debt_to_equity,
     promoter_holding_proxy_pct : vals.promoter_holding_proxy_pct,
     company_news_sentiment : vals.company_news_sentiment,
     ceo_commentary_sentiment : vals.ceo_commentary_sentiment,
     pe_assessment : {""}, score : {0}, reason_summary : {<<>>}, verdict : {""},
     return_potential_flag : {""}]

\* the fields examined together: the P/E pair, and one field at a time
FocusGroups ==
    {{"trailing_pe", "industry_median_pe"}} \cup
    {{f} : f \in ScoreFields \ {"trailing_pe", "industry_median_pe"}}

FocusRows(group) ==
    RowsOver([f \in ScoreFields |-> IF f \in group THEN RichValues[f] ELSE PlainValues[f]])

ScoreInputRows == RowsOver(CoarseValues) \cup UNION {FocusRows(g) : g \in FocusGroups}

ScoreInit ==
    /\ spc = "input"
    /\ srow \in ScoreInputRows
    /\ FundIdle
    /\ NewsIdle
    /\ CollIdle
    /\ PolicyIdle
    /\ UnitIdle
    /\ RetryIdle

\* df["pe_assessment"] = df.apply(_assess_pe, axis=1)
ScAssess ==
    /\ spc = "input"
    /\ srow' = [srow EXCEPT !.pe_assessment = AssessPe(srow)]
    /\ spc' = "assessed"
    /\ UNCHANGED notScoreVars

\* scored = df.apply(_score_row, axis=1); df["score"], df["reason_summary"]
ScScore ==
    /\ spc = "assessed"
    /\ LET res == ScoreRow(srow)
       IN  srow' = [srow EXCEPT !.score = res.score,
                                !.reason_summary = res.reason_summary,
                                !.verdict = res.verdict]
    /\ spc' = "scored"
    /\ UNCHANGED notScoreVars

\* df["return_potential_flag"] = np.where(...)
ScFlag ==
    /\ spc = "scored"
    /\ srow' = [srow EXCEPT !.return_potential_flag = ReturnPotentialFlag(srow.score)]
    /\ spc' = "flagged"
    /\ UNCHANGED notScoreVars

ScoreNext == ScAssess \/ ScScore \/ ScFlag

SpecScore == ScoreInit /\ [][ScoreNext]_vars

---------------------------------------------------------------------------
(* Claims about the scoring of one row (SpecScore) *)

\* C8: in every flagged row the flag agrees with the score: score >= 8 iff
\* "High Potential", 5 <= score < 8 iff "Watchlist", score < 5 iff
\* "Avoid/Needs Work"; and the verdict _score_row computes from the same score
\* is the flag.
C8_FlagAgreesWithScore ==
    spc = "flagged" =>
        /\ (srow.score >= 8) <=> (srow.return_potential_flag = "High Potential")
        /\ (srow.score >= 5 /\ srow.score < 8) <=> (srow.return_potential_flag = "Watchlist")
        /\ (srow.score < 5) <=> (srow.return_potential_flag = "Avoid/Needs Work")
        /\ srow.verdict = srow.return_potential_flag

C8_Witness ==
    /\ spc = "flagged"
    /\ srow.score = 8
    /\ srow.return_potential_flag = "High Potential"
    /\ srow.verdict = "High Potential"

\* the nine rules as the claim states them, in rule order: what each adds
C9_Contributions(row) ==
    LET tpe == row.trailing_pe
        fpe == row.forward_pe
        peg == row.peg_ratio
        roe == row.return_on_equity
        mar == row.profit_margins
        d2e == row.debt_to_equity
        pro == row.promoter_holding_proxy_pct
        cs  == row.company_news_sentiment
        ceo == row.ceo_commentary_sentiment
    IN  << IF row.pe_assessment \in {"undervalued_vs_industry", "low_absolute_pe"} THEN 2
           ELSE IF row.pe_assessment \in {"fair_vs_industry", "mid_absolute_pe"} THEN 1 ELSE 0,
           IF fpe # Absent /\ tpe # Absent /\ V(fpe) > 0 /\ V(tpe) > 0 /\ V(fpe) < V(tpe)
           THEN 1 ELSE 0,
           IF peg = Absent \/ V(peg) <= 0 THEN 0
           ELSE IF V(peg) <= 12 THEN 2 ELSE IF V(peg) <= 18 THEN 1 ELSE 0,
           IF roe = Absent THEN 0 ELSE IF V(roe) >= 15 THEN 2 ELSE IF V(roe) >= 10 THEN 1 ELSE 0,
           IF mar # Absent /\ V(mar) >= 10 THEN 1 ELSE 0,
           IF d2e = Absent THEN 0 ELSE IF V(d2e) <= 80 THEN 1 ELSE IF V(d2e) >= 250 THEN 0 - 1 ELSE 0,
           IF pro = Absent THEN 0 ELSE IF V(pro) >= 45 THEN 2 ELSE IF V(pro) >= 25 THEN 1 ELSE 0,
           IF cs = Absent THEN 0 ELSE IF V(cs) >= 20 THEN 2 ELSE IF V(cs) >= 8 THEN 1
           ELSE IF V(cs) <= 0 - 8 THEN 0 - 1 ELSE 0,
           IF ceo = Absent THEN 0 ELSE IF V(ceo) >= 15 THEN 1
           ELSE IF V(ceo) <= 0 - 8 THEN 0 - 1 ELSE 0 >>

\* the reason a rule gives when it adds c
C9_Reason(rule, c) ==
    CASE rule = 1 -> IF c = 2 THEN "PE favorable" ELSE "PE acceptable"
      [] rule = 2 -> "Forward PE improving"
      [] rule = 3 -> IF c = 2 THEN "PEG attractive" ELSE "PEG reasonable"
      [] rule = 4 -> IF c = 2 THEN "High ROE" ELSE "Decent ROE"
      [] rule = 5 -> "Healthy margins"
      [] rule = 6 -> IF c = 1 THEN "Manageable debt" ELSE "High leverage"
      [] rule = 7 -> IF c = 2 THEN "High insider/promoter proxy"
                     ELSE "Moderate insider/promoter proxy"
      [] rule = 8 -> IF c = 2 THEN "Strong company news sentiment"
                     ELSE IF c = 1 THEN "Positive company news sentiment"
                     ELSE "Negative company news sentiment"
      [] rule = 9 -> IF c = 1 THEN "Positive CEO sentiment" ELSE "Negative CEO sentiment"

RECURSIVE C9_Sum(_)
C9_Sum(cs) == IF cs = <<>> THEN 0 ELSE Head(cs) + C9_Sum(Tail(cs))

RECURSIVE C9_Reasons(_, _)
\* the reasons of the rules from `rule` on that fired, in rule order
C9_Reasons(cs, rule) ==
    IF rule > Len(cs) THEN <<>>
    ELSE (IF cs[rule] # 0 THEN <<C9_Reason(rule, cs[rule])>> ELSE <<>>)
         \o C9_Reasons(cs, rule + 1)

\* C9: the score of a row is the integer sum of the contributions of the nine
\* rules (inclusive thresholds, an absent field adds 0), so it lies in -3..14;
\* the reason summary is the reasons of the rules that fired, in rule order,
\* cut to the first 6.
C9_ScoreIsSumOfRules ==
    spc \in {"scored", "flagged"} =>
        LET cs == C9_Contributions(srow)
            fired == C9_Reasons(cs, 1)
        IN  /\ srow.score = C9_Sum(cs)
            /\ srow.score \in (0 - 3)..14
            /\ srow.reason_summary = SubSeq(fired, 1, IF Len(fired) < 6 THEN Len(fired) ELSE 6)

C9_Witness ==
    /\ spc = "scored"
    /\ srow.score = 14
    /\ Len(srow.reason_summary) = 6
    /\ srow.debt_to_equity = Some(80)

C10_Labels ==
    {"unavailable_or_loss_making", "undervalued_vs_industry", "fair_vs_industry",
     "overvalued_vs_industry", "low_absolute_pe", "mid_absolute_pe", "high_absolute_pe"}

\* C10: _assess_pe gives exactly one of seven labels: absent or non-positive
\* trailing P/E is "unavailable_or_loss_making"; else with a present positive
\* industry median, pe/median <= 0.9 is undervalued, <= 1.2 fair, else
\* overvalued; else pe <= 15 is low, <= 25 mid, else high absolute.
C10_AssessPeSevenLabels ==
    spc # "input" =>
        LET pe     == srow.trailing_pe
            med    == srow.industry_median_pe
            a      == srow.pe_assessment
            noPe   == pe = Absent \/ V(pe) <= 0
            useMed == ~noPe /\ med # Absent /\ V(med) > 0
            useAbs == ~noPe /\ ~useMed
        IN  /\ a \in C10_Labels
            /\ (a = "unavailable_or_loss_making") <=> noPe
            /\ (a = "undervalued_vs_industry") <=> (useMed /\ 10 * V(pe) <= 9 * V(med))
            /\ (a = "fair_vs_industry") <=>
                   (useMed /\ 10 * V(pe) > 9 * V(med) /\ 10 * V(pe) <= 12 * V(med))
            /\ (a = "overvalued_vs_industry") <=> (useMed /\ 10 * V(pe) > 12 * V(med))
            /\ (a = "low_absolute_pe") <=> (useAbs /\ V(pe) <= 150)
            /\ (a = "mid_absolute_pe") <=> (useAbs /\ V(pe) > 150 /\ V(pe) <= 250)
            /\ (a = "high_absolute_pe") <=> (useAbs /\ V(pe) > 250)

C10_Witness ==
    /\ spc = "assessed"
    /\ srow.trailing_pe = Some(90)
    /\ srow.industry_median_pe = Some(100)
    /\ srow.pe_assessment = "undervalued_vs_industry"

---------------------------------------------------------------------------
(* Tables.  A DataFrame is its set of column names and its sequence of rows; *)
(* a CSV file is missing or holds a table.  Symbols are the numbers          *)
(* 1..NumSymbols: the universe loader strips and upper-cases them, and every *)
(* table the program writes holds them in that form.                         *)

NumSymbols == 3

Symbols == 1..NumSymbols

FundColumns ==
    {"symbol", "yahoo_ticker", "company_name", "industry", "sector", "trailing_pe",
     "forward_pe", "peg_ratio", "price_to_book", "debt_to_equity", "return_on_equity",
     "return_on_assets", "profit_margins", "market_cap", "promoter_holding_proxy_pct"}

\* a to_csv that stops before the last row
ToCsv_Partial(df) ==
    [exists |-> TRUE, columns |-> df.columns,
     rows |-> SubSeq(df.rows, 1, Len(df.rows) - 1)]

\* df.to_csv(path, index=False)
ToCsv(df) == [exists |-> TRUE, columns |-> df.columns, rows |-> df.rows]

\* pd.read_csv(path) of a file the program wrote
ReadCsv(file) == [columns |-> file.columns, rows |-> file.rows]

\* pd.DataFrame(rows): a list of dicts gives their keys as columns, an empty
\* list gives a frame with no columns at all
DataFrameOfRows(rows, columns) ==
    [columns |-> IF rows = <<>> THEN {} ELSE columns, rows |-> rows]

SymbolsOf(rows) == {rows[i].symbol : i \in 1..Len(rows)}

RowsOfSymbol(rows, sym) == SelectSeq(rows, LAMBDA r : r.symbol = sym)

---------------------------------------------------------------------------
(* src/src/fundamentals/report.py: _load_universe.  The universe file lists *)
(* the symbols 1..NumSymbols, one row each; max_companies cuts it.          *)

CompanyName(sym) == <<"company", sym>>

UniverseFileRows == [i \in 1..NumSymbols |-> [symbol |-> i, company_name |-> CompanyName(i)]]

UniverseFile ==
    [exists |-> TRUE, columns |-> {"symbol", "company_name"}, rows |-> UniverseFileRows]

\* a universe file without the company_name column
BadUniverseFile ==
    [exists |-> TRUE, columns |-> {"symbol"},
     rows |-> [i \in 1..NumSymbols |-> [symbol |-> i]]]

\* _load_universe without the check of the columns
MissingUniverseColumns_Unchecked(file) == {}

\* missing = required - set(u.columns)
MissingUniverseColumns(file) == {"symbol", "company_name"} \ file.columns

\* u.head(int(max_companies)) when max_companies is given
LoadUniverse(max_companies) ==
    IF max_companies = Absent THEN UniverseFileRows
    ELSE SubSeq(UniverseFileRows, 1, Min2(V(max_companies), Len(UniverseFileRows)))

---------------------------------------------------------------------------
(* src/src/fundamentals/fetcher.py: the row a fetch task returns.  The feed *)
(* answers with one of two infos for a symbol.                               *)

Variants == {1, 2}

IndustryOf(sym) == IF sym <= 2 THEN "X" ELSE "Y"

\* FundamentalRow(symbol=..., yahoo_ticker=..., ...).__dict__
FetchedRow(sym, v) ==
    [symbol                     |-> sym,
     yahoo_ticker               |-> Some(<<sym, ".NS">>),
     company_name               |-> Some(CompanyName(sym)),
     industry                   |-> Some(IndustryOf(sym)),
     sector                     |-> Some("S"),
     trailing_pe                |-> IF sym = 3 /\ v = 2 THEN Absent ELSE Some(60 + 40 * sym + 100 * (v - 1)),
     forward_pe                 |-> IF v = 1 THEN Some(40 + 40 * sym) ELSE Absent,
     peg_ratio                  |-> IF sym % 2 = 1 THEN Some(12) ELSE Some(18),
     price_to_book              |-> Some(20),
     debt_to_equity             |-> IF v = 1 THEN Some(80) ELSE Some(250),
     return_on_equity           |-> Some(5 * sym + 5 * v),
     return_on_assets           |-> Some(5),
     profit_margins             |-> IF sym = 1 THEN Some(10) ELSE Absent,
     market_cap                 |-> Some(1000 * ((sym % 2) + 1)),
     promoter_holding_proxy_pct |-> IF v = 2 THEN Some(45) ELSE Some(25)]

\* the row of a symbol that no table has: every column but the key is NaN
NullFundRow(sym) ==
    [symbol |-> sym, yahoo_ticker |-> Absent, company_name |-> Absent, industry |-> Absent,
     sector |-> Absent, trailing_pe |-> Absent, forward_pe |-> Absent, peg_ratio |-> Absent,
     price_to_book |-> Absent, debt_to_equity |-> Absent, return_on_equity |-> Absent,
     return_on_assets |-> Absent, profit_margins |-> Absent, market_cap |-> Absent,
     promoter_holding_proxy_pct |-> Absent]

---------------------------------------------------------------------------
(* src/src/fundamentals/report.py: _merge_with_cache *)

RECURSIVE DropDuplicatesKeepLast(_)
\* merged.drop_duplicates(subset=["symbol"], keep="last")
DropDuplicatesKeepLast(rows) ==
    IF rows = <<>> THEN <<>>
    ELSE IF Head(rows).symbol \in SymbolsOf(Tail(rows))
         THEN DropDuplicatesKeepLast(Tail(rows))
         ELSE <<Head(rows)>> \o DropDuplicatesKeepLast(Tail(rows))

RECURSIVE LeftJoinRows(_, _)
\* left.merge(right, on="symbol", how="left"): the left order is kept, each
\* left key is followed by its matches in right order, or by one row of NaN
LeftJoinRows(keys, rightRows) ==
    IF keys = <<>> THEN <<>>
    ELSE LET hits == RowsOfSymbol(rightRows, Head(keys))
         IN  (IF hits = <<>> THEN <<NullFundRow(Head(keys))>> ELSE hits)
             \o LeftJoinRows(Tail(keys), rightRows)

KeyError == [ok |-> FALSE, err |-> "KeyError: 'symbol'"]
Ok(df) == [ok |-> TRUE, df |-> df]

UniverseKeys(universe) == [i \in 1..Len(universe) |-> universe[i].symbol]

\* universe[["symbol"]].merge(merged, on="symbol", how="left")
JoinOntoUniverse(universe, merged) ==
    IF "symbol" \notin merged.columns THEN KeyError
    ELSE Ok([columns |-> merged.columns,
             rows |-> LeftJoinRows(UniverseKeys(universe), merged.rows)])

MergeWithCache_NoDedup(universe, fresh, rawFile) ==
    IF rawFile.exists /\ "symbol" \in rawFile.columns
    THEN IF "symbol" \notin fresh.columns THEN KeyError
         ELSE JoinOntoUniverse(universe,
                  [columns |-> rawFile.columns \cup fresh.columns,
                   rows |-> ReadCsv(rawFile).rows \o fresh.rows])
    ELSE JoinOntoUniverse(universe, fresh)

MergeWithCache_NoUniverseJoin(universe, fresh, rawFile) ==
    IF rawFile.exists /\ "symbol" \in rawFile.columns
    THEN IF "symbol" \notin fresh.columns THEN KeyError
         ELSE Ok([columns |-> rawFile.columns \cup fresh.columns,
                  rows |-> DropDuplicatesKeepLast(ReadCsv(rawFile).rows \o fresh.rows)])
    ELSE JoinOntoUniverse(universe, fresh)

MergeWithCache(universe, fresh, rawFile) ==
    IF rawFile.exists
    THEN LET cached == ReadCsv(rawFile)
         IN  IF "symbol" \in cached.columns
             THEN \* fresh["symbol"] = fresh["symbol"].astype(str)...
                  IF "symbol" \notin fresh.columns THEN KeyError
                  ELSE JoinOntoUniverse(universe,
                           [columns |-> cached.columns \cup fresh.columns,
                            rows |-> DropDuplicatesKeepLast(cached.rows \o fresh.rows)])
             ELSE JoinOntoUniverse(universe, fresh)
    ELSE JoinOntoUniverse(universe, fresh)

---------------------------------------------------------------------------
(* src/src/fundamentals/report.py: generate_fundamentals_report, the ranking *)

\* universe.merge(merged_fund, on="symbol", how="left", suffixes=("", "_dup"))
\* and the drop of company_name_dup: the name is the universe's
RECURSIVE JoinUniverseNames(_, _)
JoinUniverseNames(universe, mergedRows) ==
    IF universe = <<>> THEN <<>>
    ELSE LET u    == Head(universe)
             hits == LeftJoinRows(<<u.symbol>>, mergedRows)
         IN  [i \in 1..Len(hits) |-> [hits[i] EXCEPT !.company_name = Some(u.company_name)]]
             \o JoinUniverseNames(Tail(universe), mergedRows)

RECURSIVE InsertAscending(_, _)
InsertAscending(x, sorted) ==
    IF sorted = <<>> THEN <<x>>
    ELSE IF x < Head(sorted) THEN <<x>> \o sorted
    ELSE <<Head(sorted)>> \o InsertAscending(x, Tail(sorted))

RECURSIVE SortAscending(_)
SortAscending(values) ==
    IF values = <<>> THEN <<>>
    ELSE InsertAscending(Head(values), SortAscending(Tail(values)))

\* Series.median(): the middle value, or the mean of the two middle values
Median(values) ==
    LET sorted == SortAscending(values)
        n == Len(sorted)
    IN  IF n % 2 = 1 THEN sorted[(n + 1) \div 2]
        ELSE IF sorted[n \div 2 + 1] = Inf THEN Inf
        ELSE (sorted[n \div 2] + sorted[n \div 2 + 1]) \div 2

\* valid_pe = df[(df["trailing_pe"].notna()) & (df["trailing_pe"] > 0)]
ValidPe(rows) == SelectSeq(rows, LAMBDA r : NotNa(r.trailing_pe) /\ V(r.trailing_pe) > 0)

\* valid_pe.groupby("industry")["trailing_pe"].median(), joined back by industry:
\* a row without industry, or whose industry has no valid P/E, gets NaN
IndustryMedianPe(rows, industry) ==
    IF IsNa(industry) THEN Absent
    ELSE LET peers == SelectSeq(ValidPe(rows), LAMBDA r : r.industry = industry)
         IN  IF peers = <<>> THEN Absent
             ELSE Some(Median([i \in 1..Len(peers) |-> V(peers[i].trailing_pe)]))

\* _load_sentiment: the (symbol, avg_sentiment) pairs of a summary file, none
\* when the file is missing or lacks one of the two columns
LoadSentiment(file) ==
    IF ~file.exists THEN <<>>
    ELSE IF ~({"symbol", "avg_sentiment"} \subseteq file.columns) THEN <<>>
    ELSE ReadCsv(file).rows

RECURSIVE JoinSentiment(_, _, _)
\* df.merge(sent, on="symbol", how="left"), adding the column `column`
JoinSentiment(rows, sentRows, column) ==
    IF rows = <<>> THEN <<>>
    ELSE LET r    == Head(rows)
             hits == RowsOfSymbol(sentRows, r.symbol)
             vals == IF hits = <<>> THEN <<Absent>>
                     ELSE [i \in 1..Len(hits) |-> hits[i].avg_sentiment]
         IN  [i \in 1..Len(vals) |-> r @@ (column :> vals[i])]
             \o JoinSentiment(Tail(rows), sentRows, column)

\* one key of a descending sort that puts NaN first
KeyBefore_NaFirst(a, b) == (IsNa(a) /\ NotNa(b)) \/ (NotNa(a) /\ NotNa(b) /\ V(a) > V(b))

\* one key of sort_values(ascending=False): a larger value first, NaN last
KeyBefore(a, b) == NotNa(a) /\ (IsNa(b) \/ V(a) > V(b))

\* whether row a sorts strictly before row b
RankedBefore(a, b) ==
    LET ka == <<Some(a.score), a.company_news_sentiment, a.ceo_commentary_sentiment, a.market_cap>>
        kb == <<Some(b.score), b.company_news_sentiment, b.ceo_commentary_sentiment, b.market_cap>>
    IN  \E i \in 1..4 : KeyBefore(ka[i], kb[i]) /\ \A j \in 1..(i - 1) : ka[j] = kb[j]

RECURSIVE InsertRanked(_, _)
\* x goes before the first row it sorts strictly before: equal rows keep their order
InsertRanked(x, sorted) ==
    IF sorted = <<>> THEN <<x>>
    ELSE IF RankedBefore(x, Head(sorted)) THEN <<x>> \o sorted
    ELSE <<Head(sorted)>> \o InsertRanked(x, Tail(sorted))

RECURSIVE SortRanked(_, _)
\* df.sort_values([score, company, ceo, market_cap], ascending=False): stable
SortRanked(rows, sorted) ==
    IF rows = <<>> THEN sorted
    ELSE SortRanked(Tail(rows), InsertRanked(Head(rows), sorted))

RankedColumns ==
    FundColumns \cup {"industry_median_pe", "company_news_sentiment",
                      "ceo_commentary_sentiment", "pe_assessment", "score",
                      "reason_summary", "return_potential_flag"}

\* lines 185-212: df from the merged table to the sorted ranking
RankedTable(universe, mergedRows, companySentFile, ceoSentFile) ==
    LET named   == JoinUniverseNames(universe, mergedRows)
        withMed == [i \in 1..Len(named) |->
                       named[i] @@ ("industry_median_pe" :> IndustryMedianPe(named, named[i].industry))]
        withCo  == JoinSentiment(withMed, LoadSentiment(companySentFile), "company_news_sentiment")
        withCeo == JoinSentiment(withCo, LoadSentiment(ceoSentFile), "ceo_commentary_sentiment")
        withPe  == [i \in 1..Len(withCeo) |->
                       withCeo[i] @@ ("pe_assessment" :> AssessPe(withCeo[i]))]
        scored  == [i \in 1..Len(withPe) |->
                       LET res == ScoreRow(withPe[i])
                       IN  withPe[i] @@ ("score" :> res.score)
                                     @@ ("reason_summary" :> res.reason_summary)
                                     @@ ("return_potential_flag" :> ReturnPotentialFlag(res.score))]
    IN  [columns |-> RankedColumns, rows |-> SortRanked(scored, <<>>)]

\* df.head(top_n)
HeadRows(df, n) ==
    [columns |-> df.columns,
     rows |-> IF n >= 0 THEN SubSeq(df.rows, 1, Min2(n, Len(df.rows)))
              ELSE SubSeq(df.rows, 1, Max2(Len(df.rows) + n, 0))]

---------------------------------------------------------------------------
(* SpecFund: runs of generate_fundamentals_report, one after another, over   *)
(* the files the runs themselves leave on disk.                              *)

SummaryColumns ==
    {"symbol", "news_count", "positive_count", "neutral_count", "negative_count",
     "avg_sentiment", "top_links", "vibe"}

SentimentFile(avgBySymbol) ==
    [exists |-> TRUE, columns |-> SummaryColumns,
     rows |-> [i \in 1..Len(avgBySymbol) |->
                  [symbol |-> avgBySymbol[i][1], avg_sentiment |-> Some(avgBySymbol[i][2])]]]

\* the company and CEO summaries an earlier news run left (or did not leave)
SentimentFileChoices ==
    { <<NoFile, NoFile>>,
      <<SentimentFile(<< <<2, 20>>, <<1, 0 - 8>> >>), SentimentFile(<< <<1, 15>> >>)>> }

\* the orders in which the elements of S can come
Orders(S) ==
    {p \in [1..Cardinality(S) -> S] : \A i, j \in 1..Cardinality(S) : p[i] = p[j] => i = j}

FundInit ==
    /\ fpc = "idle"
    /\ f_universe = <<>>
    /\ f_fetched = <<>>
    /\ f_fresh = NoFrame
    /\ f_use_cache = FALSE
    /\ f_cached = NoFile
    /\ f_df = NoFrame
    /\ raw_csv = NoFile
    /\ ranked_csv = NoFile
    /\ top_csv = NoFile
    /\ \E files \in SentimentFileChoices :
           /\ company_sent_csv = files[1]
           /\ ceo_sent_csv = files[2]
    /\ universe_csv \in {UniverseFile, BadUniverseFile}
    /\ ScoreIdle
    /\ NewsIdle
    /\ CollIdle
    /\ PolicyIdle
    /\ UnitIdle
    /\ RetryIdle

\* a run that raised after its first or its second write; the runs are
\* followed up to the first such run
FundFailedLate == {"failed_after_raw", "failed_after_ranked"}

\* _load_universe raises ValueError: the universe file lacks a required column
FConfigError ==
    /\ fpc \in {"idle", "done", "failed", "config_error"}
    /\ MissingUniverseColumns(universe_csv) # {}
    /\ fpc' = "config_error"
    /\ UNCHANGED <<f_universe, f_fetched, f_fresh, f_use_cache, f_cached, f_df,
                   raw_csv, ranked_csv, top_csv, company_sent_csv, ceo_sent_csv,
                   universe_csv>>
    /\ UNCHANGED notFundVars

\* between two runs the universe file is replaced by one without company_name
FUniverseReplaced ==
    /\ fpc \in {"done", "failed"}
    /\ universe_csv = UniverseFile
    /\ universe_csv' = BadUniverseFile
    /\ UNCHANGED <<fpc, f_universe, f_fetched, f_fresh, f_use_cache, f_cached, f_df,
                   raw_csv, ranked_csv, top_csv, company_sent_csv, ceo_sent_csv>>
    /\ UNCHANGED notFundVars

\* universe = _load_universe(cfg["universe_csv"], cfg.get("max_companies"))
FLoadUniverse ==
    /\ fpc \in {"idle", "done", "failed"}
    /\ MissingUniverseColumns(universe_csv) = {}
    /\ \E max_companies \in Opt(0..NumSymbols) :
           f_universe' = LoadUniverse(max_companies)
    /\ fpc' = "loaded"
    /\ f_fetched' = <<>>
    /\ f_fresh' = NoFrame
    /\ f_cached' = NoFile
    /\ f_df' = NoFrame
    /\ f_use_cache' = FALSE
    /\ UNCHANGED <<raw_csv, ranked_csv, top_csv, company_sent_csv, ceo_sent_csv,
                   universe_csv>>
    /\ UNCHANGED notFundVars

\* fresh = fetch_fundamentals_for_universe(...): the rows of the tasks that did
\* not raise, in the order the tasks completed
FFetch ==
    /\ fpc = "loaded"
    /\ \E result \in [SymbolsOf(f_universe) -> {0} \cup Variants] :
       \E order \in Orders({sym \in SymbolsOf(f_universe) : result[sym] # 0}) :
           /\ f_fetched' = result
           /\ f_fresh' = DataFrameOfRows(
                              [i \in 1..Len(order) |-> FetchedRow(order[i], result[order[i]])],
                              FundColumns)
    /\ fpc' = "fetched"
    /\ UNCHANGED <<f_universe, f_use_cache, f_cached, f_df,
                   raw_csv, ranked_csv, top_csv, company_sent_csv, ceo_sent_csv,
                   universe_csv>>
    /\ UNCHANGED notFundVars

\* lines 178-183: the merge and merged_fund.to_csv(raw_fundamentals_csv); an
\* exception of the merge ends the run before anything is written; fresh is
\* not used after the merge
FMergeWriteRaw ==
    /\ fpc = "fetched"
    /\ \E use_cache \in BOOLEAN :
           LET res == IF use_cache THEN MergeWithCache(f_universe, f_fresh, raw_csv)
                      ELSE JoinOntoUniverse(f_universe, f_fresh)
           IN  /\ f_use_cache' = use_cache
               /\ f_cached' = raw_csv
               /\ IF res.ok
                  THEN /\ raw_csv' = ToCsv(res.df)
                       /\ fpc' = "raw_written"
                  ELSE /\ raw_csv' = raw_csv
                       /\ fpc' = "failed"
    /\ f_fresh' = NoFrame
    /\ UNCHANGED <<f_universe, f_fetched, f_df, ranked_csv, top_csv, company_sent_csv, ceo_sent_csv,
                   universe_csv>>
    /\ UNCHANGED notFundVars

\* lines 185-214: the ranking and df.to_csv(ranked_report_csv)
FRankWriteRanked ==
    /\ fpc = "raw_written"
    /\ f_df' = RankedTable(f_universe, raw_csv.rows, company_sent_csv, ceo_sent_csv)
    /\ ranked_csv' = ToCsv(f_df')
    /\ fpc' = "ranked_written"
    /\ UNCHANGED <<f_universe, f_fetched, f_fresh, f_use_cache, f_cached,
                   raw_csv, top_csv, company_sent_csv, ceo_sent_csv,
                   universe_csv>>
    /\ UNCHANGED notFundVars

\* a failing run that puts the raw file back as it was
FRankFails_Rollback ==
    /\ fpc = "raw_written"
    /\ fpc' = "failed_after_raw"
    /\ raw_csv' = f_cached
    /\ UNCHANGED <<f_universe, f_fetched, f_fresh, f_use_cache, f_cached, f_df,
                   ranked_csv, top_csv, company_sent_csv, ceo_sent_csv, universe_csv>>
    /\ UNCHANGED notFundVars

\* lines 193-214 raise: cfg has no "company_sentiment_csv" or "ceo_sentiment_csv",
\* a sentiment file has no header line (read_csv raises EmptyDataError), or
\* outputs has no "ranked_report_csv"; the raw file has been written
FRankFails ==
    /\ fpc = "raw_written"
    /\ fpc' = "failed_after_raw"
    /\ UNCHANGED <<f_universe, f_fetched, f_fresh, f_use_cache, f_cached, f_df,
                   raw_csv, ranked_csv, top_csv, company_sent_csv, ceo_sent_csv,
                   universe_csv>>
    /\ UNCHANGED notFundVars

\* lines 215-216 raise: int(cfg.get("top_n", 50)) of a value that is no
\* number, or outputs has no "top_picks_csv"; raw and ranked file are written
FTopFails ==
    /\ fpc = "ranked_written"
    /\ fpc' = "failed_after_ranked"
    /\ UNCHANGED <<f_universe, f_fetched, f_fresh, f_use_cache, f_cached, f_df,
                   raw_csv, ranked_csv, top_csv, company_sent_csv, ceo_sent_csv,
                   universe_csv>>
    /\ UNCHANGED notFundVars

\* cfg["top_n"]
TopN == 2

\* lines 215-216: df.head(top_n).to_csv(top_picks_csv); the run returns df and
\* its other locals are gone
FWriteTop ==
    /\ fpc = "ranked_written"
    /\ top_csv' = ToCsv(HeadRows(f_df, TopN))
    /\ fpc' = "done"
    /\ f_cached' = NoFile
    /\ UNCHANGED <<f_universe, f_fetched, f_fresh, f_use_cache, f_df,
                   raw_csv, ranked_csv, company_sent_csv, ceo_sent_csv,
                   universe_csv>>
    /\ UNCHANGED notFundVars

FundNext ==
    \/ FConfigError
    \/ FUniverseReplaced
    \/ FLoadUniverse
    \/ FFetch
    \/ FMergeWriteRaw
    \/ FRankWriteRanked
    \/ FRankFails
    \/ FWriteTop
    \/ FTopFails

SpecFund == FundInit /\ [][FundNext]_vars

---------------------------------------------------------------------------
(* SpecMerge: _merge_with_cache applied to a raw file and, as fresh, the     *)
(* table read from that same file.                                           *)

\* the raw tables a run can leave: one row for each symbol of that run's
\* universe 1..m, a fetched or cached row or a row of NaN, and at least one
\* fetched row (a run whose fetches all fail writes nothing)
RawTablesOfRuns ==
    UNION { { [i \in 1..m |-> IF pick[i] = 0 THEN NullFundRow(i) ELSE FetchedRow(i, pick[i])] :
                pick \in {f \in [1..m -> {0} \cup Variants] : \E i \in 1..m : f[i] # 0} } :
            m \in 1..NumSymbols }

MergeInit ==
    /\ fpc = "cache_read"
    /\ \E max_companies \in Opt(0..NumSymbols) : f_universe = LoadUniverse(max_companies)
    /\ \E rows \in RawTablesOfRuns : raw_csv = ToCsv([columns |-> FundColumns, rows |-> rows])
    /\ f_fresh = ReadCsv(raw_csv)
    /\ f_fetched = <<>>
    /\ f_use_cache = TRUE
    /\ f_cached = raw_csv
    /\ f_df = NoFrame
    /\ ranked_csv = NoFile
    /\ top_csv = NoFile
    /\ company_sent_csv = NoFile
    /\ ceo_sent_csv = NoFile
    /\ universe_csv = UniverseFile
    /\ ScoreIdle
    /\ NewsIdle
    /\ CollIdle
    /\ PolicyIdle
    /\ UnitIdle
    /\ RetryIdle

\* merged = _merge_with_cache(universe, fresh, raw_csv)
MSelfMerge ==
    /\ fpc = "cache_read"
    /\ LET res == MergeWithCache(f_universe, f_fresh, raw_csv)
       IN  IF res.ok THEN f_df' = res.df /\ fpc' = "self_merged"
           ELSE f_df' = NoFrame /\ fpc' = "failed"
    /\ UNCHANGED <<f_universe, f_fetched, f_fresh, f_use_cache, f_cached,
                   raw_csv, ranked_csv, top_csv, company_sent_csv, ceo_sent_csv,
                   universe_csv>>
    /\ UNCHANGED notFundVars

MergeNext == MSelfMerge

SpecMerge == MergeInit /\ [][MergeNext]_vars

---------------------------------------------------------------------------
(* Claims about the fundamentals run (SpecFund) and the merge (SpecMerge) *)

\* every raw file a run leaves is one of RawTablesOfRuns
RawFileIsOfARun == raw_csv.exists => raw_csv.rows \in RawTablesOfRuns

RowSet(rows) == {rows[i] : i \in 1..Len(rows)}

\* the row the claim gives symbol sym in the merged table
C5_ExpectedRow(sym, consultCache) ==
    IF f_fetched[sym] # 0 THEN FetchedRow(sym, f_fetched[sym])
    ELSE IF consultCache /\ RowsOfSymbol(f_cached.rows, sym) # <<>>
         THEN RowsOfSymbol(f_cached.rows, sym)[1]
         ELSE NullFundRow(sym)

C5_OneRowPerSymbol(consultCache) ==
    /\ Len(raw_csv.rows) = Len(f_universe)
    /\ \A i \in 1..Len(f_universe) :
           LET sym == f_universe[i].symbol
           IN  RowsOfSymbol(raw_csv.rows, sym) = <<C5_ExpectedRow(sym, consultCache)>>

\* C5: with caching enabled the merged table has exactly one row per universe
\* symbol: the fresh row if there is one, else the cached row if there is one,
\* else a row with every fundamentals field absent; with caching disabled the
\* cached table is not consulted.
C5_MergeLatestWins ==
    /\ (f_use_cache /\ fpc \in {"raw_written", "failed"}) =>
           (fpc = "raw_written" /\ C5_OneRowPerSymbol(TRUE))
    /\ (~f_use_cache /\ fpc = "raw_written") => C5_OneRowPerSymbol(FALSE)

\* C6 as stated: merging any cached table with itself as fresh gives the same
\* rows with the same values as the cached table.
C6_SelfMergeSameRows ==
    fpc # "cache_read" =>
        /\ fpc = "self_merged"
        /\ RowSet(f_df.rows) = RowSet(f_cached.rows)
        /\ Len(f_df.rows) = Len(f_cached.rows)

\* C6, amended: when the cached table holds exactly the symbols of the
\* universe, one row each, merging it with itself as fresh gives the same rows
\* with the same values; in every case the result has one row per universe
\* symbol, the cached row of that symbol or a row of absent fields.
C6_SelfMergeWithinUniverse ==
    fpc # "cache_read" =>
        /\ fpc = "self_merged"
        /\ Len(f_df.rows) = Len(f_universe)
        /\ \A i \in 1..Len(f_universe) :
               LET sym == f_universe[i].symbol
                   cachedRows == RowsOfSymbol(f_cached.rows, sym)
               IN  RowsOfSymbol(f_df.rows, sym) =
                       IF cachedRows = <<>> THEN <<NullFundRow(sym)>> ELSE cachedRows
        /\ (SymbolsOf(f_cached.rows) = SymbolsOf(f_universe)) =>
               /\ RowSet(f_df.rows) = RowSet(f_cached.rows)
               /\ Len(f_df.rows) = Len(f_cached.rows)

C6_Witness ==
    /\ fpc = "self_merged"
    /\ Len(f_universe) = 2
    /\ SymbolsOf(f_cached.rows) = SymbolsOf(f_universe)
    /\ f_df.rows = f_cached.rows
    /\ f_cached.rows[2] # NullFundRow(2)

\* the fundamentals columns of a ranked row
FundPart(row) == [c \in FundColumns |-> row[c]]

\* C7: a fetch failure is never fatal: the run completes and writes its
\* tables, and a failed symbol without a cached row appears exactly once in
\* the raw and in the ranked table, with every fundamentals field absent.
C7_FetchFailureNotFatal ==
    /\ fpc # "failed"
    /\ fpc \in {"raw_written", "ranked_written"} =>
           \A sym \in SymbolsOf(f_universe) :
               (f_fetched[sym] = 0 /\ (~f_use_cache \/ RowsOfSymbol(f_cached.rows, sym) = <<>>)) =>
                   /\ RowsOfSymbol(raw_csv.rows, sym) = <<NullFundRow(sym)>>
                   /\ fpc = "ranked_written" =>
                          /\ Len(RowsOfSymbol(ranked_csv.rows, sym)) = 1
                          /\ [FundPart(RowsOfSymbol(ranked_csv.rows, sym)[1])
                                 EXCEPT !.company_name = Absent] = NullFundRow(sym)

\* what holds of the code: C5 and C7 in every run in which at least one fetch
\* task returned a row (fresh then has its columns)
SomeFetchSucceeded == \E sym \in DOMAIN f_fetched : f_fetched[sym] # 0

MergeLatestWinsIfSomeFetched ==
    (fpc \in {"raw_written", "failed"} /\ SomeFetchSucceeded) =>
        (fpc = "raw_written" /\ C5_OneRowPerSymbol(f_use_cache))

FetchFailureNotFatalIfSomeFetched ==
    (fpc \in {"raw_written", "ranked_written", "failed"} /\ SomeFetchSucceeded) =>
        C7_FetchFailureNotFatal

\* the merge raises exactly when no fetch task returned a row
MergeFailsIffNothingFetched ==
    fpc \in {"raw_written", "failed"} => ((fpc = "failed") <=> ~SomeFetchSucceeded)

(***************************************************************************)
(* src/src/news/analyzer.py and src/src/news/report.py.  A headline carries *)
(* the compound score the sentiment analyzer gives it, in hundredths.  The  *)
(* mean of a group of scores is kept as <<sum, count>>.                     *)
(***************************************************************************)

Headline(compound) == <<"headline", compound>>

\* self._analyzer.polarity_scores(text).get("compound", 0.0)
Compound(text) == text[2]

\* analyze with the thresholds taken as exclusive
Analyze_Exclusive(text) ==
    [label |-> IF Compound(text) > 5 THEN "positive"
               ELSE IF Compound(text) < 0 - 5 THEN "negative"
               ELSE "neutral",
     score |-> Compound(text)]

\* NewsSentimentAnalyzer.analyze
Analyze(text) ==
    LET compound == Compound(text)
    IN  [label |-> IF compound >= 5 THEN "positive"
                   ELSE IF compound <= 0 - 5 THEN "negative"
                   ELSE "neutral",
         score |-> compound]

NewsItem(symbol, compound, link) ==
    [symbol |-> symbol, title |-> Headline(compound), link |-> link,
     published |-> "published", source |-> "source"]

DetailsColumns ==
    {"symbol", "title", "link", "published", "source", "sentiment_label", "sentiment_score"}

\* DataFrame.empty: no columns or no rows
IsEmptyFrame(df) == df.columns = {} \/ df.rows = <<>>

RECURSIVE Dedupe(_, _)
\* list(dict.fromkeys(links)): the first occurrence of each, in order
Dedupe(links, seen) ==
    IF links = <<>> THEN <<>>
    ELSE IF Head(links) \in seen THEN Dedupe(Tail(links), seen)
    ELSE <<Head(links)>> \o Dedupe(Tail(links), seen \cup {Head(links)})

\* _safe_links: the first top_n distinct non-blank links, to be joined by " | "
SafeLinks(links, top_n) ==
    FirstN(Dedupe(SelectSeq(links, LAMBDA x : x # ""), {}), top_n)

\* _vibe, of a mean <<sum, count>>
Vibe(score) ==
    IF score[1] >= 5 * score[2] THEN "positive vibe"
    ELSE IF score[1] <= (0 - 5) * score[2] THEN "negative vibe"
    ELSE "neutral vibe"

RECURSIVE SumOf(_)
SumOf(values) == IF values = <<>> THEN 0 ELSE Head(values) + SumOf(Tail(values))

CountLabel(rows, label) == Len(SelectSeq(rows, LAMBDA r : r.sentiment_label = label))

\* one group of details_df.groupby(symbol_col).agg(...), with its vibe
SummaryRow(symbol, rows) ==
    LET avg == <<SumOf([i \in 1..Len(rows) |-> rows[i].sentiment_score]), Len(rows)>>
    IN  [symbol |-> symbol,
         news_count |-> Len(rows),
         positive_count |-> CountLabel(rows, "positive"),
         neutral_count |-> CountLabel(rows, "neutral"),
         negative_count |-> CountLabel(rows, "negative"),
         avg_sentiment |-> avg,
         top_links |-> SafeLinks([i \in 1..Len(rows) |-> rows[i].link], 3),
         vibe |-> Vibe(avg)]

\* whether summary row a sorts strictly before b: avg_sentiment, then news_count, descending
SummaryBefore(a, b) ==
    LET x == a.avg_sentiment[1] * b.avg_sentiment[2]
        y == b.avg_sentiment[1] * a.avg_sentiment[2]
    IN  x > y \/ (x = y /\ a.news_count > b.news_count)

RECURSIVE InsertSummary(_, _)
InsertSummary(x, sorted) ==
    IF sorted = <<>> THEN <<x>>
    ELSE IF SummaryBefore(x, Head(sorted)) THEN <<x>> \o sorted
    ELSE <<Head(sorted)>> \o InsertSummary(x, Tail(sorted))

RECURSIVE SortSummary(_, _)
\* summary.sort_values(["avg_sentiment", "news_count"], ascending=[False, False])
SortSummary(rows, sorted) ==
    IF rows = <<>> THEN sorted
    ELSE SortSummary(Tail(rows), InsertSummary(Head(rows), sorted))

\* the keys of groupby: the symbols of the frame, ascending
GroupKeys(rows) ==
    LET keys == SymbolsOf(rows)
    IN  SortAscending(CHOOSE p \in Orders(keys) : TRUE)

\* _summarize
Summarize(details_df) ==
    LET keys == GroupKeys(details_df.rows)
        grouped == [i \in 1..Len(keys) |->
                       SummaryRow(keys[i], RowsOfSymbol(details_df.rows, keys[i]))]
    IN  [columns |-> SummaryColumns, rows |-> SortSummary(grouped, <<>>)]

\* _existing_non_empty: read_csv raises on a file without a header line
ExistingNonEmpty(file) ==
    IF ~file.exists THEN NoFrame
    ELSE IF file.columns = {} THEN NoFrame
    ELSE IF ~IsEmptyFrame(ReadCsv(file)) THEN ReadCsv(file)
    ELSE NoFrame

\* _write_output without the preserve branch
WriteOutput_AlwaysWrites(new_df, file, preserve_non_empty) ==
    [file |-> ToCsv(new_df), df |-> new_df]

\* _write_output keeping whatever file exists when the new table is empty
WriteOutput_KeepsAnyFile(new_df, file, preserve_non_empty) ==
    IF preserve_non_empty /\ IsEmptyFrame(new_df) /\ file.exists
    THEN [file |-> file, df |-> ReadCsv(file)]
    ELSE [file |-> ToCsv(new_df), df |-> new_df]

\* _write_output: the file as the call leaves it, and the frame it returns
WriteOutput(new_df, file, preserve_non_empty) ==
    IF ~preserve_non_empty THEN [file |-> ToCsv(new_df), df |-> new_df]
    ELSE IF ~IsEmptyFrame(new_df) THEN [file |-> ToCsv(new_df), df |-> new_df]
    ELSE IF ~IsEmptyFrame(ExistingNonEmpty(file))
         THEN [file |-> file, df |-> ExistingNonEmpty(file)]
    ELSE [file |-> ToCsv(new_df), df |-> new_df]

\* _analyze_items: the frame it hands to _write_output
DetailsFrame(items) ==
    IF items = <<>> THEN [columns |-> DetailsColumns, rows |-> <<>>]
    ELSE DataFrameOfRows(
             [i \in 1..Len(items) |->
                 [symbol |-> items[i].symbol,
                  title |-> items[i].title,
                  link |-> items[i].link,
                  published |-> items[i].published,
                  source |-> items[i].source,
                  sentiment_label |-> Analyze(items[i].title).label,
                  sentiment_score |-> Analyze(items[i].title).score]],
             DetailsColumns)

\* _analyze_items returning the frame it built, not the one _write_output returns
AnalyzeItems_ReturnsNew(items, file, preserve_non_empty) ==
    [file |-> WriteOutput(DetailsFrame(items), file, preserve_non_empty).file,
     df |-> DetailsFrame(items)]

\* _analyze_items
AnalyzeItems(items, file, preserve_non_empty) ==
    WriteOutput(DetailsFrame(items), file, preserve_non_empty)

\* generate_30d_news_and_ceo_reports: the summary of a details frame
SummaryFrame(details) ==
    IF ~IsEmptyFrame(details) THEN Summarize(details)
    ELSE [columns |-> SummaryColumns, rows |-> <<>>]

(***************************************************************************)
(* SpecNews: runs of generate_30d_news_and_ceo_reports, one after another,  *)
(* over the four output files.  Before the first run each file is missing  *)
(* or is not a CSV (no header line).                                        *)
(***************************************************************************)

ZeroByteFile == [exists |-> TRUE, columns |-> {}, rows |-> <<>>]

\* what the two fetches of a run can bring, in completion order
NewsItemLists ==
    { <<>>,
      <<NewsItem(2, 0, "c")>>,
      <<NewsItem(1, 30, "a"), NewsItem(2, 0 - 5, "b"), NewsItem(1, 5, "a")>> }

WriteCall(path, new_df, before, preserve_non_empty) ==
    [path |-> path, preserve |-> preserve_non_empty, new_df |-> new_df, before |-> before,
     after |-> WriteOutput(new_df, before, preserve_non_empty).file,
     returned |-> WriteOutput(new_df, before, preserve_non_empty).df]

NewsInit ==
    /\ ScoreIdle
    /\ FundIdle
    /\ CollIdle
    /\ PolicyIdle
    /\ UnitIdle
    /\ RetryIdle
    /\ npc = "idle"
    /\ n_universe = {}
    /\ n_force_refresh = FALSE
    /\ n_company_items = <<>>
    /\ n_ceo_items = <<>>
    /\ n_company_details = NoFrame
    /\ n_ceo_details = NoFrame
    /\ n_write = NoWrite
    /\ company_details_csv \in {NoFile, ZeroByteFile}
    /\ ceo_details_csv \in {NoFile, ZeroByteFile}
    /\ company_summary_csv \in {NoFile, ZeroByteFile}
    /\ ceo_summary_csv \in {NoFile, ZeroByteFile}

\* a run that raised KeyError at line 179-192, by the number of writes before;
\* the runs are followed up to the first such run
NewsFailed == {"failed_0", "failed_1", "failed_2", "failed_3"}

\* lines 109-121: news_cfg names no companies, and names no universe file or
\* one that lacks a required column: _load_companies raises ValueError
NConfigError ==
    /\ npc \in {"idle", "done", "config_error"}
    /\ npc' = "config_error"
    /\ UNCHANGED <<n_universe, n_force_refresh, n_company_items, n_ceo_items, n_company_details,
                   n_ceo_details, n_write, company_details_csv, ceo_details_csv,
                   company_summary_csv, ceo_summary_csv>>
    /\ UNCHANGED notNewsVars

\* the configuration and the companies are read and the two batches are
\* fetched: each brings items of symbols of the companies only
NFetch ==
    /\ npc \in {"idle", "done", "config_error"}
    /\ \E force_refresh \in BOOLEAN, max_companies \in 0..NumSymbols :
       \E company_items, ceo_items \in
              {l \in NewsItemLists : SymbolsOf(l) \subseteq 1..max_companies} :
           /\ n_universe' = SymbolsOf(LoadUniverse(Some(max_companies)))
           /\ n_force_refresh' = force_refresh
           /\ n_company_items' = company_items
           /\ n_ceo_items' = ceo_items
    /\ n_company_details' = NoFrame
    /\ n_ceo_details' = NoFrame
    /\ npc' = "fetched"
    /\ UNCHANGED <<n_write, company_details_csv, ceo_details_csv, company_summary_csv,
                   ceo_summary_csv>>
    /\ UNCHANGED notNewsVars

\* company_details = _analyze_items(company_items, company_details_csv, preserve_non_empty)
NWriteCompanyDetails ==
    /\ npc = "fetched"
    /\ LET w == WriteCall("company_details_csv", DetailsFrame(n_company_items),
                          company_details_csv, ~n_force_refresh)
       IN  /\ n_write' = w
           /\ company_details_csv' = AnalyzeItems(n_company_items, company_details_csv,
                                                  ~n_force_refresh).file
           /\ n_company_details' = AnalyzeItems(n_company_items, company_details_csv,
                                                ~n_force_refresh).df
    /\ npc' = "company_details_written"
    /\ UNCHANGED <<n_universe, n_force_refresh, n_company_items, n_ceo_items, n_ceo_details,
                   ceo_details_csv, company_summary_csv, ceo_summary_csv>>
    /\ UNCHANGED notNewsVars

\* ceo_details = _analyze_items(ceo_items, ceo_details_csv, preserve_non_empty)
NWriteCeoDetails ==
    /\ npc = "company_details_written"
    /\ LET w == WriteCall("ceo_details_csv", DetailsFrame(n_ceo_items),
                          ceo_details_csv, ~n_force_refresh)
       IN  /\ n_write' = w
           /\ ceo_details_csv' = AnalyzeItems(n_ceo_items, ceo_details_csv,
                                              ~n_force_refresh).file
           /\ n_ceo_details' = AnalyzeItems(n_ceo_items, ceo_details_csv,
                                            ~n_force_refresh).df
    /\ npc' = "ceo_details_written"
    /\ UNCHANGED <<n_universe, n_force_refresh, n_company_items, n_ceo_items, n_company_details,
                   company_details_csv, company_summary_csv, ceo_summary_csv>>
    /\ UNCHANGED notNewsVars

\* company_summary = _write_output(company_summary, company_summary_csv, preserve_non_empty)
NWriteCompanySummary ==
    /\ npc = "ceo_details_written"
    /\ LET w == WriteCall("company_summary_csv", SummaryFrame(n_company_details),
                          company_summary_csv, ~n_force_refresh)
       IN  /\ n_write' = w
           /\ company_summary_csv' = w.after
    /\ npc' = "company_summary_written"
    /\ UNCHANGED <<n_universe, n_force_refresh, n_company_items, n_ceo_items, n_company_details,
                   n_ceo_details, company_details_csv, ceo_details_csv, ceo_summary_csv>>
    /\ UNCHANGED notNewsVars

\* ceo_summary = _write_output(ceo_summary, ceo_summary_csv, preserve_non_empty)
NWriteCeoSummary ==
    /\ npc = "company_summary_written"
    /\ LET w == WriteCall("ceo_summary_csv", SummaryFrame(n_ceo_details),
                          ceo_summary_csv, ~n_force_refresh)
       IN  /\ n_write' = w
           /\ ceo_summary_csv' = w.after
    /\ npc' = "done"
    /\ UNCHANGED <<n_universe, n_force_refresh, n_company_items, n_ceo_items, n_company_details,
                   n_ceo_details, company_details_csv, ceo_details_csv, company_summary_csv>>
    /\ UNCHANGED notNewsVars

\* news_cfg has no "outputs", or outputs lacks the path of the next write:
\* KeyError at line 179, 181, 182, 191 or 192
NOutputKeyMissing ==
    /\ npc \in {"fetched", "company_details_written", "ceo_details_written",
                "company_summary_written"}
    /\ npc' = CASE npc = "fetched" -> "failed_0"
                [] npc = "company_details_written" -> "failed_1"
                [] npc = "ceo_details_written" -> "failed_2"
                [] npc = "company_summary_written" -> "failed_3"
    /\ UNCHANGED <<n_universe, n_force_refresh, n_company_items, n_ceo_items, n_company_details,
                   n_ceo_details, n_write, company_details_csv, ceo_details_csv,
                   company_summary_csv, ceo_summary_csv>>
    /\ UNCHANGED notNewsVars

NewsNext ==
    \/ NConfigError
    \/ NFetch
    \/ NWriteCompanyDetails
    \/ NWriteCeoDetails
    \/ NWriteCompanySummary
    \/ NWriteCeoSummary
    \/ NOutputKeyMissing

SpecNews == NewsInit /\ [][NewsNext]_vars

(***************************************************************************)
(* Claims about the news writer and the news run (SpecNews)                *)
(***************************************************************************)

\* a file that exists, parses and holds at least one row
NonEmptyTable(file) == file.exists /\ file.columns # {} /\ file.rows # <<>>

\* C3: each call of _write_output writes the new table in overwrite mode, and
\* in preserve mode when the new table is non-empty; in preserve mode with an
\* empty new table it leaves the file as it is and returns the table of the
\* file exactly when the file exists, parses and is non-empty, and otherwise
\* (missing, unparseable or empty) it writes the empty table.
C3_WriteOutputDecision ==
    n_write.path # "" =>
        IF n_write.preserve /\ IsEmptyFrame(n_write.new_df) /\ NonEmptyTable(n_write.before)
        THEN /\ n_write.after = n_write.before
             /\ n_write.returned = [columns |-> n_write.before.columns,
                                    rows |-> n_write.before.rows]
        ELSE /\ n_write.after = [exists |-> TRUE, columns |-> n_write.new_df.columns,
                                 rows |-> n_write.new_df.rows]
             /\ n_write.returned = n_write.new_df

\* a preserve-mode call with an empty new table has kept a non-empty file
C3_Witness ==
    /\ n_write.path # ""
    /\ n_write.preserve
    /\ IsEmptyFrame(n_write.new_df)
    /\ NonEmptyTable(n_write.before)
    /\ n_write.after = n_write.before

NewsFiles == <<company_details_csv, ceo_details_csv, company_summary_csv, ceo_summary_csv>>

\* C4: no step of a run with force_refresh = false turns one of the four news
\* files from a non-empty table into anything else; a step that does so
\* belongs to a run with force_refresh = true.
C4_PreserveNeverEmpties ==
    [][\A f \in 1..4 :
          (NonEmptyTable(NewsFiles[f]) /\ ~NonEmptyTable(NewsFiles'[f])) => n_force_refresh]_vars

\* a run with force_refresh = false whose two fetches brought nothing has
\* ended, and the four files hold non-empty tables
C4_Witness ==
    /\ npc = "done"
    /\ ~n_force_refresh
    /\ n_company_items = <<>>
    /\ n_ceo_items = <<>>
    /\ \A f \in 1..4 : NonEmptyTable(NewsFiles[f])

(***************************************************************************)
(* SpecCollect: one call after another of fetch_news_for_queries            *)
(* (src/src/news/fetcher.py) or fetch_fundamentals_for_universe             *)
(* (src/src/fundamentals/fetcher.py).  The calling thread submits one task  *)
(* per key to a ThreadPoolExecutor, whose threads take the queued tasks in  *)
(* the order of submission, at most `workers` at a time; as_completed then  *)
(* hands the finished futures to the calling thread in any order.           *)
(***************************************************************************)

\* what the feed holds for a symbol: two items, two items, or none
NewsOf(sym) ==
    IF sym % 3 = 1 THEN <<NewsItem(sym, 30, "a"), NewsItem(sym, 0 - 20, "b")>>
    ELSE IF sym % 3 = 2 THEN <<NewsItem(sym, 5, "c"), NewsItem(sym, 5, "c")>>
    ELSE <<>>

\* what fut.result() returns for a task that does not raise, as the list of
\* elements that extend (news) or append (fundamentals) adds
TaskResult(kind, key) ==
    IF kind = "news" THEN NewsOf(key) ELSE <<FetchedRow(key, 1)>>

CollectOutcomes == {0, 1}

\* news_cfg / cfg max_workers
MaxWorkersChoices == {0, 2, 40}

\* workers = max(1, min(max_workers, 32))
Workers(max_workers) == Max2(1, Min2(max_workers, 32))

\* the body of the as_completed loop without its try / except
CollectResult_NoExcept(out, kind, key, outcome) ==
    IF outcome = 0 THEN [out |-> out, raised |-> TRUE]
    ELSE [out |-> out \o TaskResult(kind, key), raised |-> FALSE]

\* try: all_items.extend(fut.result()) / rows.append(fut.result().__dict__)
\* except Exception: continue
CollectResult(out, kind, key, outcome) ==
    IF outcome = 0 THEN [out |-> out, raised |-> FALSE]
    ELSE [out |-> out \o TaskResult(kind, key), raised |-> FALSE]

KeySet == {c_keys[i] : i \in 1..Len(c_keys)}

Running == {k \in KeySet : c_status[k] = "running"}

CollectInit ==
    /\ ScoreIdle
    /\ FundIdle
    /\ NewsIdle
    /\ CollIdle
    /\ PolicyIdle
    /\ UnitIdle
    /\ RetryIdle

\* the call: an empty symbol_to_query returns at once, before a pool exists
CCall ==
    /\ cpc \in {"idle", "returned"}
    /\ \E kind \in {"news", "fund"}, n \in 0..NumSymbols, max_workers \in MaxWorkersChoices :
       \E outcome \in [1..n -> CollectOutcomes] :
           /\ c_kind' = kind
           /\ c_keys' = UniverseKeys(LoadUniverse(Some(n)))
           /\ c_outcome' = outcome
           /\ c_workers' = Workers(max_workers)
           /\ c_status' = [k \in 1..n |-> "new"]
           /\ cpc' = IF n > 0 THEN "submitting"
                     ELSE IF kind = "news" THEN "returned"
                     ELSE "collecting"
    /\ c_yielded' = {}
    /\ c_out' = <<>>
    /\ UNCHANGED notCollVars

\* pool.submit(...) of the next key
CSubmit ==
    /\ cpc = "submitting"
    /\ \E i \in 1..Len(c_keys) :
           /\ c_status[c_keys[i]] = "new"
           /\ \A j \in 1..(i - 1) : c_status[c_keys[j]] # "new"
           /\ c_status' = [c_status EXCEPT ![c_keys[i]] = "queued"]
           /\ cpc' = IF i = Len(c_keys) THEN "collecting" ELSE "submitting"
    /\ UNCHANGED <<c_kind, c_keys, c_outcome, c_workers, c_yielded, c_out>>
    /\ UNCHANGED notCollVars

\* a pool thread takes the task at the head of the queue
CStart(k) ==
    /\ cpc \in {"submitting", "collecting", "raised"}
    /\ k \in KeySet
    /\ c_status[k] = "queued"
    /\ \A j \in KeySet : j < k => c_status[j] # "queued"
    /\ Cardinality(Running) < c_workers
    /\ c_status' = [c_status EXCEPT ![k] = "running"]
    /\ UNCHANGED <<cpc, c_kind, c_keys, c_outcome, c_workers, c_yielded, c_out>>
    /\ UNCHANGED notCollVars

\* the task returns or raises: its future is finished
CFinish(k) ==
    /\ k \in KeySet
    /\ c_status[k] = "running"
    /\ c_status' = [c_status EXCEPT ![k] = "done"]
    /\ UNCHANGED <<cpc, c_kind, c_keys, c_outcome, c_workers, c_yielded, c_out>>
    /\ UNCHANGED notCollVars

\* one round of `for fut in as_completed(futures)`
CCollect(k) ==
    /\ cpc = "collecting"
    /\ k \in KeySet \ c_yielded
    /\ c_status[k] = "done"
    /\ c_yielded' = c_yielded \cup {k}
    /\ c_out' = CollectResult(c_out, c_kind, k, c_outcome[k]).out
    /\ cpc' = IF CollectResult(c_out, c_kind, k, c_outcome[k]).raised THEN "raised"
              ELSE "collecting"
    /\ UNCHANGED <<c_kind, c_keys, c_outcome, c_workers, c_status>>
    /\ UNCHANGED notCollVars

\* as_completed is exhausted, the pool shuts down, the function returns
CReturn ==
    /\ cpc = "collecting"
    /\ c_yielded = KeySet
    /\ cpc' = "returned"
    /\ UNCHANGED <<c_kind, c_keys, c_outcome, c_workers, c_status, c_yielded, c_out>>
    /\ UNCHANGED notCollVars

CollectNext ==
    \/ CCall
    \/ CSubmit
    \/ \E k \in Symbols : CStart(k)
    \/ \E k \in Symbols : CFinish(k)
    \/ \E k \in Symbols : CCollect(k)
    \/ CReturn

SpecCollect == CollectInit /\ [][CollectNext]_vars

(***************************************************************************)
(* Claims about the collectors (SpecCollect)                               *)
(***************************************************************************)

\* the elements of the returned collection that belong to a key
OutOfKey(k) == SelectSeq(c_out, LAMBDA e : e.symbol = k)

\* C1: no exception of a task reaches the caller; when the collector has
\* returned, every submitted task has finished, and the returned collection
\* holds the result of each task that did not raise exactly once, nothing for
\* a key whose task raised, and nothing else.
C1_ReturnsNonRaisingResults ==
    /\ cpc # "raised"
    /\ cpc = "returned" =>
           /\ \A k \in KeySet : c_status[k] = "done"
           /\ \A k \in KeySet :
                  OutOfKey(k) = IF c_outcome[k] = 0 THEN <<>> ELSE TaskResult(c_kind, k)
           /\ \A i \in 1..Len(c_out) : c_out[i].symbol \in KeySet

\* a call over at least two keys has returned: one task raised, one returned
\* elements, and more tasks were submitted than the pool has threads
C1_Witness ==
    /\ cpc = "returned"
    /\ Len(c_keys) > c_workers
    /\ \E k \in KeySet : c_outcome[k] = 0
    /\ \E k \in KeySet : c_outcome[k] # 0 /\ OutOfKey(k) # <<>>

RECURSIVE ResultsInOrder(_)
\* the results of the tasks that did not raise, in the order of the keys
ResultsInOrder(keys) ==
    IF keys = <<>> THEN <<>>
    ELSE (IF c_outcome[Head(keys)] = 0 THEN <<>> ELSE TaskResult(c_kind, Head(keys)))
         \o ResultsInOrder(Tail(keys))

\* the raw file of an earlier run over three symbols, the last of which failed
C2_RawFiles ==
    {NoFile,
     [exists |-> TRUE, columns |-> FundColumns,
      rows |-> <<FetchedRow(1, 2), FetchedRow(2, 2), NullFundRow(3)>>]}

\* the merged table and, from it, the ranked table, or the error of the merge
C2_FundOutputs(rows, rawFile) ==
    LET universe == LoadUniverse(Some(Len(c_keys)))
        merged == MergeWithCache(universe, DataFrameOfRows(rows, FundColumns), rawFile)
    IN  IF merged.ok
        THEN <<merged, RankedTable(universe, merged.df.rows,
                                   SentimentFile(<< <<2, 20>>, <<1, 0 - 8>> >>),
                                   SentimentFile(<< <<1, 15>> >>))>>
        ELSE <<merged>>

\* C2: whatever order the tasks completed in, the outputs computed from the
\* returned collection are those computed from the results taken in key
\* order: the news summary, and the merged and ranked fundamentals tables
\* (with or without a cached raw file).
C2_CompletionOrderIndependent ==
    cpc = "returned" =>
        IF c_kind = "news"
        THEN SummaryFrame(DetailsFrame(c_out)) = SummaryFrame(DetailsFrame(ResultsInOrder(c_keys)))
        ELSE \A rawFile \in C2_RawFiles :
                 C2_FundOutputs(c_out, rawFile) = C2_FundOutputs(ResultsInOrder(c_keys), rawFile)

\* a fundamentals call has returned its rows in another order than the keys
C2_Witness ==
    /\ cpc = "returned"
    /\ c_kind = "fund"
    /\ Len(c_out) >= 2
    /\ c_out # ResultsInOrder(c_keys)

\* a news call has returned its items in another order than the keys
NewsReturnedOutOfOrder ==
    /\ cpc = "returned"
    /\ c_kind = "news"
    /\ Len(c_out) >= 4
    /\ c_out # ResultsInOrder(c_keys)

(***************************************************************************)
(* src/src/news/policy_report.py.  A text is a sequence of letters, a       *)
(* keyword is a sequence of lower-case letters, and `w in t` is the search  *)
(* of w as a contiguous part of t.  The keyword table below stands for the  *)
(* configured table: three categories, listed in alphabetical order.        *)
(* policy_row_score and policy_benefit_score are in hundredths.             *)
(***************************************************************************)

Keywords ==
    << [cat |-> "capex_infra",       words |-> {<<"p">>}],
       [cat |-> "defence",           words |-> {<<"d", "e">>}],
       [cat |-> "energy_transition", words |-> {<<"e", "v">>, <<"w">>}] >>

\* str.lower()
LowerLetter(c) == IF c = "E" THEN "e" ELSE IF c = "V" THEN "v" ELSE c
Lower(text) == [i \in 1..Len(text) |-> LowerLetter(text[i])]

\* w in t
Contains(w, t) == \E i \in 1..(Len(t) - Len(w) + 1) : SubSeq(t, i, i + Len(w) - 1) = w

\* work["title"].astype(str): a missing title becomes the text "nan"
TitleText(title) == IF IsNa(title) THEN <<"n", "a", "n">> ELSE V(title)

\* _matches: the categories with a keyword in the lower-cased text, in table order
Matches(text, keywords) ==
    LET t == Lower(text)
        hit(i) == \E w \in keywords[i].words : Contains(w, t)
        RECURSIVE From(_)
        From(i) == IF i > Len(keywords) THEN <<>>
                   ELSE (IF hit(i) THEN <<keywords[i].cat>> ELSE <<>>) \o From(i + 1)
    IN  From(1)

\* _bucket with the second test dropped
Bucket_NoPotential(score, mentions) ==
    IF mentions >= 5 /\ score >= 800 THEN "High Policy Benefit" ELSE "Watch"

\* _bucket
Bucket(score, mentions) ==
    IF mentions >= 5 /\ score >= 800 THEN "High Policy Benefit"
    ELSE IF mentions >= 2 /\ score >= 400 THEN "Potential Beneficiary"
    ELSE "Watch"

PolicySourceColumns == {"symbol", "title", "link", "published", "source", "sentiment_score"}

PolicySummaryColumns ==
    {"symbol", "scheme_mentions", "avg_scheme_sentiment", "policy_benefit_score",
     "matched_categories", "top_links", "benefit_bucket"}

EvidenceColumns ==
    {"symbol", "published", "title", "link", "source", "sentiment_score",
     "matched_categories", "policy_row_score"}

\* pd.to_numeric(..., errors="coerce").fillna(0.0)
FilledSentiment(x) == IF IsNa(x) THEN 0 ELSE V(x)

\* keyword_hit_count * 1.5 + sentiment_score.clip(lower=0.0) * 2.0, without the clip
PolicyRowScore_NoClip(hits, sentiment_score) == 150 * hits + 2 * sentiment_score

\* keyword_hit_count * 1.5 + sentiment_score.clip(lower=0.0) * 2.0
PolicyRowScore(hits, sentiment_score) == 150 * hits + 2 * Max2(sentiment_score, 0)

\* lines 140-143: one row of work, before the filter
WorkRow(row) ==
    [symbol |-> row.symbol, published |-> row.published, title |-> row.title,
     link |-> row.link, source |-> row.source,
     sentiment_score |-> FilledSentiment(row.sentiment_score),
     matched_categories_list |-> Matches(TitleText(row.title), Keywords)]

\* work without the filter of line 143
Work_Unfiltered(details) ==
    [i \in 1..Len(details.rows) |-> WorkRow(details.rows[i])]

\* lines 140-143: work, the rows with at least one matched category
Work(details) ==
    SelectSeq([i \in 1..Len(details.rows) |-> WorkRow(details.rows[i])],
              LAMBDA r : Len(r.matched_categories_list) > 0)

SetOfSeq(q) == {q[i] : i \in 1..Len(q)}

\* lines 162-176: one row of the evidence table
EvidenceRow(w) ==
    [symbol |-> w.symbol, published |-> w.published, title |-> w.title, link |-> w.link,
     source |-> w.source, sentiment_score |-> w.sentiment_score,
     matched_categories |-> SetOfSeq(w.matched_categories_list),
     policy_row_score |-> PolicyRowScore(Cardinality(SetOfSeq(w.matched_categories_list)),
                                         w.sentiment_score)]

EvidenceBefore(a, b) ==
    \/ a.policy_row_score > b.policy_row_score
    \/ a.policy_row_score = b.policy_row_score /\ a.sentiment_score > b.sentiment_score

RECURSIVE InsertEvidence(_, _)
\* x goes before the first row it sorts strictly before
InsertEvidence(x, sorted) ==
    IF sorted = <<>> THEN <<x>>
    ELSE IF EvidenceBefore(x, Head(sorted)) THEN <<x>> \o sorted
    ELSE <<Head(sorted)>> \o InsertEvidence(x, Tail(sorted))

RECURSIVE SortEvidence(_, _)
\* sort_values(["policy_row_score", "sentiment_score"], ascending=[False, False])
SortEvidence(rows, sorted) ==
    IF rows = <<>> THEN sorted
    ELSE SortEvidence(Tail(rows), InsertEvidence(Head(rows), sorted))

\* line 177: evidence
Evidence(work) ==
    SortEvidence([i \in 1..Len(work) |-> EvidenceRow(work[i])], <<>>)

\* lines 179-200: the row of one symbol in summary
PolicySummaryRow(symbol, work) ==
    LET rows == RowsOfSymbol(work, symbol)
        scores == [i \in 1..Len(rows) |-> EvidenceRow(rows[i]).policy_row_score]
        mentions == Len(SelectSeq(rows, LAMBDA r : NotNa(r.title)))
    IN  [symbol |-> symbol,
         scheme_mentions |-> mentions,
         avg_scheme_sentiment |-> <<SumOf([i \in 1..Len(rows) |-> rows[i].sentiment_score]),
                                    Len(rows)>>,
         policy_benefit_score |-> SumOf(scores),
         matched_categories |-> UNION {SetOfSeq(rows[i].matched_categories_list) :
                                          i \in 1..Len(rows)},
         top_links |-> SafeLinks([i \in 1..Len(rows) |-> rows[i].link], 3),
         benefit_bucket |-> Bucket(SumOf(scores), mentions)]

PolicySummaryBefore(a, b) ==
    LET x == a.avg_scheme_sentiment[1] * b.avg_scheme_sentiment[2]
        y == b.avg_scheme_sentiment[1] * a.avg_scheme_sentiment[2]
    IN  \/ a.policy_benefit_score > b.policy_benefit_score
        \/ /\ a.policy_benefit_score = b.policy_benefit_score
           /\ \/ a.scheme_mentions > b.scheme_mentions
              \/ a.scheme_mentions = b.scheme_mentions /\ x > y

RECURSIVE InsertPolicySummary(_, _)
InsertPolicySummary(x, sorted) ==
    IF sorted = <<>> THEN <<x>>
    ELSE IF PolicySummaryBefore(x, Head(sorted)) THEN <<x>> \o sorted
    ELSE <<Head(sorted)>> \o InsertPolicySummary(x, Tail(sorted))

RECURSIVE SortPolicySummary(_, _)
\* line 202: sort_values of three keys, descending
SortPolicySummary(rows, sorted) ==
    IF rows = <<>> THEN sorted
    ELSE SortPolicySummary(Tail(rows), InsertPolicySummary(Head(rows), sorted))

\* lines 179-202: summary
PolicySummary(work) ==
    LET keys == GroupKeys(work)
    IN  SortPolicySummary([i \in 1..Len(keys) |-> PolicySummaryRow(keys[i], work)], <<>>)

\* the table the run writes to outputs.summary_csv
PolicySummaryOut(details) ==
    IF IsEmptyFrame(details) \/ Work(details) = <<>>
    THEN [columns |-> PolicySummaryColumns, rows |-> <<>>]
    ELSE [columns |-> PolicySummaryColumns, rows |-> PolicySummary(Work(details))]

\* the table the run writes to outputs.evidence_csv: empty_evidence (line 137),
\* work itself when the filter left no row (line 159), evidence (line 206)
PolicyEvidenceOut(details) ==
    IF IsEmptyFrame(details) THEN [columns |-> EvidenceColumns, rows |-> <<>>]
    ELSE IF Work(details) = <<>>
    THEN [columns |-> details.columns \cup {"matched_categories_list"}, rows |-> <<>>]
    ELSE [columns |-> EvidenceColumns, rows |-> Evidence(Work(details))]

(***************************************************************************)
(* SpecPolicy: runs of generate_policy_benefit_report over a source details *)
(* file of at most MaxDetailRows rows; between runs the source file can be  *)
(* removed or replaced by one without the sentiment_score column.           *)
(***************************************************************************)

MaxDetailRows == 2

PolicyTitles == {Some(<<"x">>), Some(<<"E", "v">>), Some(<<"d", "e", "V">>), Absent}

PolicyDetailRows ==
    [symbol : {1, 2}, title : PolicyTitles, link : {"a"}, published : {"published"},
     source : {"source"}, sentiment_score : {Absent, Some(0 - 30), Some(40)}]

SeqsUpTo(S, n) == UNION {[1..k -> S] : k \in 0..n}

BadColumnsFile ==
    [exists |-> TRUE, columns |-> DetailsColumns \ {"sentiment_score"}, rows |-> <<>>]

PolicySourceFiles ==
    {NoFile, BadColumnsFile}
    \cup {[exists |-> TRUE, columns |-> DetailsColumns, rows |-> rows] :
              rows \in SeqsUpTo(PolicyDetailRows, MaxDetailRows)}

PolicyInit ==
    /\ ScoreIdle
    /\ FundIdle
    /\ NewsIdle
    /\ CollIdle
    /\ UnitIdle
    /\ RetryIdle
    /\ ppc = "idle"
    /\ source_details_csv \in PolicySourceFiles
    /\ p_details = NoFrame
    /\ policy_summary_csv = NoFile
    /\ policy_evidence_csv = NoFile

\* lines 97-109: the source file is looked up and read, its columns checked
PRead ==
    /\ ppc \in {"idle", "done", "no_file", "bad_columns"}
    /\ IF ~source_details_csv.exists
       THEN ppc' = "no_file" /\ p_details' = NoFrame
       ELSE IF ~(PolicySourceColumns \subseteq source_details_csv.columns)
       THEN ppc' = "bad_columns" /\ p_details' = NoFrame
       ELSE ppc' = "read" /\ p_details' = ReadCsv(source_details_csv)
    /\ UNCHANGED <<source_details_csv, policy_summary_csv, policy_evidence_csv>>
    /\ UNCHANGED notPolicyVars

\* lines 136, 158, 205: to_csv(outputs["summary_csv"])
PWriteSummary ==
    /\ ppc = "read"
    /\ policy_summary_csv' = ToCsv(PolicySummaryOut(p_details))
    /\ ppc' = "summary_written"
    /\ UNCHANGED <<source_details_csv, p_details, policy_evidence_csv>>
    /\ UNCHANGED notPolicyVars

\* lines 137, 159, 206: to_csv(outputs["evidence_csv"])
PWriteEvidence ==
    /\ ppc = "summary_written"
    /\ policy_evidence_csv' = ToCsv(PolicyEvidenceOut(p_details))
    /\ ppc' = "done"
    /\ UNCHANGED <<source_details_csv, p_details, policy_summary_csv>>
    /\ UNCHANGED notPolicyVars

\* between two runs the source file is removed or loses a column
PSourceReplaced ==
    /\ ppc = "done"
    /\ source_details_csv' \in {NoFile, BadColumnsFile}
    /\ ppc' = "idle"
    /\ p_details' = NoFrame
    /\ UNCHANGED <<policy_summary_csv, policy_evidence_csv>>
    /\ UNCHANGED notPolicyVars

PolicyNext ==
    \/ PRead
    \/ PWriteSummary
    \/ PWriteEvidence
    \/ PSourceReplaced

SpecPolicy == PolicyInit /\ [][PolicyNext]_vars

(***************************************************************************)
(* Claims about the policy report (SpecPolicy)                             *)
(***************************************************************************)

\* whether a title has a keyword of at least one category
C11_TitleMatches(title) ==
    \E i \in 1..Len(Keywords) : \E w \in Keywords[i].words :
        Contains(w, Lower(TitleText(title)))

C11_Categories(title) ==
    {Keywords[i].cat : i \in {j \in 1..Len(Keywords) :
                                 \E w \in Keywords[j].words : Contains(w, Lower(TitleText(title)))}}

\* the score the claim gives a kept row, in hundredths
C11_RowScore(row) ==
    150 * Cardinality(C11_Categories(row.title))
    + (IF NotNa(row.sentiment_score) /\ V(row.sentiment_score) > 0
       THEN 2 * V(row.sentiment_score) ELSE 0)

\* the source rows whose title matches, in the order of the file
C11_Kept == SelectSeq(p_details.rows, LAMBDA r : C11_TitleMatches(r.title))

\* C11: the evidence table holds one row for each source row whose title
\* matches a category and no other row; each row's policy_row_score is
\* 1.5 x (distinct matched categories) + 2.0 x max(sentiment_score, 0), a
\* negative or missing sentiment counting 0; a symbol's policy_benefit_score
\* is the sum of its rows' scores.
C11_PolicyScores ==
    ppc = "done" =>
        LET ev == policy_evidence_csv.rows
            key(r) == <<r.symbol, r.title, C11_RowScore(r)>>
            got(e) == <<e.symbol, e.title, e.policy_row_score>>
        IN  /\ Len(ev) = Len(C11_Kept)
            /\ \A k \in {key(C11_Kept[i]) : i \in 1..Len(C11_Kept)}
                      \cup {got(ev[i]) : i \in 1..Len(ev)} :
                   Cardinality({i \in 1..Len(ev) : got(ev[i]) = k})
                   = Cardinality({i \in 1..Len(C11_Kept) : key(C11_Kept[i]) = k})
            /\ \A i \in 1..Len(policy_summary_csv.rows) :
                   LET srow_ == policy_summary_csv.rows[i]
                       mine == SelectSeq(C11_Kept, LAMBDA r : r.symbol = srow_.symbol)
                   IN  srow_.policy_benefit_score
                       = SumOf([j \in 1..Len(mine) |-> C11_RowScore(mine[j])])
            /\ {policy_summary_csv.rows[i].symbol : i \in 1..Len(policy_summary_csv.rows)}
               = {C11_Kept[i].symbol : i \in 1..Len(C11_Kept)}

\* a run has ended whose source holds two matching rows of one symbol, one of
\* them with a negative sentiment and two matched categories
C11_Witness ==
    /\ ppc = "done"
    /\ \E i, j \in 1..Len(policy_evidence_csv.rows) :
           /\ i # j
           /\ policy_evidence_csv.rows[i].symbol = policy_evidence_csv.rows[j].symbol
           /\ policy_evidence_csv.rows[i].sentiment_score < 0
           /\ Cardinality(policy_evidence_csv.rows[i].matched_categories) = 2

\* a run has ended whose source holds a row that matches and one that does not
SomeRowDropped ==
    /\ ppc = "done"
    /\ C11_Kept # <<>>
    /\ Len(C11_Kept) < Len(p_details.rows)

\* the columns the claim gives the evidence table
C13_EvidenceHeader ==
    {"symbol", "published", "title", "link", "source", "sentiment_score",
     "matched_categories", "policy_row_score"}

C13_SummaryHeader ==
    {"symbol", "scheme_mentions", "avg_scheme_sentiment", "policy_benefit_score",
     "matched_categories", "top_links", "benefit_bucket"}

\* C13: after a run over a source table that is empty or in which no title
\* matches a keyword, the summary and the evidence file both exist, hold no
\* row, and have exactly the column headers of their non-empty forms.
C13_EmptyOutputsKeepHeaders ==
    (ppc = "done" /\ C11_Kept = <<>>) =>
        /\ policy_summary_csv.exists
        /\ policy_summary_csv.rows = <<>>
        /\ policy_summary_csv.columns = C13_SummaryHeader
        /\ policy_evidence_csv.exists
        /\ policy_evidence_csv.rows = <<>>
        /\ policy_evidence_csv.columns = C13_EvidenceHeader

\* what holds of the code: C13 for a source table without rows, and for the
\* summary in either case
EmptySourceKeepsHeaders ==
    (ppc = "done" /\ C11_Kept = <<>>) =>
        /\ policy_summary_csv = [exists |-> TRUE, columns |-> C13_SummaryHeader, rows |-> <<>>]
        /\ policy_evidence_csv.exists
        /\ policy_evidence_csv.rows = <<>>
        /\ p_details.rows = <<>> => policy_evidence_csv.columns = C13_EvidenceHeader

\* with rows in the source and no match the evidence file has the columns of
\* the source and matched_categories_list
NoMatchEvidenceHeader ==
    (ppc = "done" /\ C11_Kept = <<>> /\ p_details.rows # <<>>) =>
        policy_evidence_csv.columns = p_details.columns \cup {"matched_categories_list"}

(***************************************************************************)
(* SpecUnit: one application of _bucket (policy_report.py), of              *)
(* NewsSentimentAnalyzer.analyze (analyzer.py) or of _vibe (report.py) to   *)
(* arguments drawn from the sets below.                                     *)
(***************************************************************************)

MaxMentions == 6

\* policy_benefit_score, in hundredths: around 4 and 8, and far from them
BucketScores == {0, 399, 400, 401, 799, 800, 801, 10000}

\* compound scores, in hundredths: around -0.05 and 0.05, and the extremes
CompoundValues == {0 - 100, 0 - 6, 0 - 5, 0 - 4, 0, 4, 5, 6, 100}

\* means <<sum, count>> of one to three scores, around -0.05 and 0.05
MeanValues == {<<sum, count>> : sum \in (0 - 16)..16, count \in 1..3}

UnitInputs ==
    [fn : {"_bucket"}, score : BucketScores, mentions : 0..MaxMentions]
    \cup [fn : {"analyze"}, text : {Headline(c) : c \in CompoundValues}]
    \cup [fn : {"_vibe"}, score : MeanValues]

UnitInit ==
    /\ ScoreIdle
    /\ FundIdle
    /\ NewsIdle
    /\ CollIdle
    /\ PolicyIdle
    /\ RetryIdle
    /\ upc = "input"
    /\ u_in \in UnitInputs
    /\ u_out = <<>>

UBucket ==
    /\ upc = "input"
    /\ u_in.fn = "_bucket"
    /\ u_out' = Bucket(u_in.score, u_in.mentions)
    /\ upc' = "applied"
    /\ UNCHANGED u_in
    /\ UNCHANGED notUnitVars

UAnalyze ==
    /\ upc = "input"
    /\ u_in.fn = "analyze"
    /\ u_out' = Analyze(u_in.text)
    /\ upc' = "applied"
    /\ UNCHANGED u_in
    /\ UNCHANGED notUnitVars

UVibe ==
    /\ upc = "input"
    /\ u_in.fn = "_vibe"
    /\ u_out' = Vibe(u_in.score)
    /\ upc' = "applied"
    /\ UNCHANGED u_in
    /\ UNCHANGED notUnitVars

UnitNext ==
    \/ UBucket
    \/ UAnalyze
    \/ UVibe

SpecUnit == UnitInit /\ [][UnitNext]_vars

(***************************************************************************)
(* Claims about the classifiers (SpecUnit)                                 *)
(***************************************************************************)

\* C12: _bucket returns "High Policy Benefit" iff mentions >= 5 and score >= 8,
\* otherwise "Potential Beneficiary" iff mentions >= 2 and score >= 4,
\* otherwise "Watch"; both boundaries are inclusive: (5, 8) is High,
\* (5, 7.99) is Potential, (1, 100) is Watch.
C12_BucketBoundaries ==
    (upc = "applied" /\ u_in.fn = "_bucket") =>
        LET high == u_in.mentions >= 5 /\ u_in.score >= 800
            potential == ~high /\ u_in.mentions >= 2 /\ u_in.score >= 400
        IN  /\ u_out \in {"High Policy Benefit", "Potential Beneficiary", "Watch"}
            /\ (u_out = "High Policy Benefit") <=> high
            /\ (u_out = "Potential Beneficiary") <=> potential
            /\ (u_out = "Watch") <=> (~high /\ ~potential)
            /\ (u_in.mentions = 5 /\ u_in.score = 800) => u_out = "High Policy Benefit"
            /\ (u_in.mentions = 5 /\ u_in.score = 799) => u_out = "Potential Beneficiary"
            /\ (u_in.mentions = 1 /\ u_in.score = 10000) => u_out = "Watch"

\* _bucket has been applied to (5 mentions, score 7.99)
C12_Witness ==
    /\ upc = "applied"
    /\ u_in.fn = "_bucket"
    /\ u_in.mentions = 5
    /\ u_in.score = 799
    /\ u_out = "Potential Beneficiary"

\* C14: the label of a text is a function of its compound score alone, with
\* inclusive thresholds: positive iff score >= 0.05, negative iff
\* score <= -0.05, neutral iff strictly between; the vibe of a mean applies
\* the same two thresholds.
C14_SentimentThresholds ==
    /\ (upc = "applied" /\ u_in.fn = "analyze") =>
           LET c == u_in.text[2]
           IN  /\ u_out.score = c
               /\ u_out.label \in {"positive", "negative", "neutral"}
               /\ (u_out.label = "positive") <=> (c >= 5)
               /\ (u_out.label = "negative") <=> (c <= 0 - 5)
               /\ (u_out.label = "neutral") <=> (0 - 5 < c /\ c < 5)
    /\ (upc = "applied" /\ u_in.fn = "_vibe") =>
           LET sum == u_in.score[1]
               count == u_in.score[2]
           IN  /\ u_out \in {"positive vibe", "negative vibe", "neutral vibe"}
               /\ (u_out = "positive vibe") <=> (sum >= 5 * count)
               /\ (u_out = "negative vibe") <=> (sum <= (0 - 5) * count)
               /\ (u_out = "neutral vibe") <=> ((0 - 5) * count < sum /\ sum < 5 * count)

\* analyze has been applied to a text of compound score exactly -0.05
C14_Witness ==
    /\ upc = "applied"
    /\ u_in.fn = "analyze"
    /\ u_in.text[2] = 0 - 5
    /\ u_out.label = "negative"

\* _vibe has been applied to a mean of exactly 0.05 over three items
VibeAtThreshold ==
    /\ upc = "applied"
    /\ u_in.fn = "_vibe"
    /\ u_in.score = <<15, 3>>
    /\ u_out = "positive vibe"

(***************************************************************************)
(* Claims about the tables of a run: one row per symbol, within the universe *)
(***************************************************************************)

OneRowPerSymbol(rows) ==
    \A i, j \in 1..Len(rows) : rows[i].symbol = rows[j].symbol => i = j

\* the run has just computed a summary and handed it to _write_output
IsSummaryWrite ==
    /\ npc \in {"company_summary_written", "done"}
    /\ n_write.path \in {"company_summary_csv", "ceo_summary_csv"}

ItemsOfWrite == IF n_write.path = "company_summary_csv" THEN n_company_items ELSE n_ceo_items

\* C15: every summary and ranking table a run produces (the company and CEO
\* news summaries, the policy summary, the raw and the ranked fundamentals
\* table) has at most one row per symbol, all of them symbols of the run's
\* universe; a news summary has a row for a symbol only if the run collected
\* at least one item for it.
C15_OneRowPerSymbolInUniverse ==
    /\ IsSummaryWrite =>
           /\ OneRowPerSymbol(n_write.new_df.rows)
           /\ SymbolsOf(n_write.new_df.rows) \subseteq n_universe
           /\ SymbolsOf(n_write.new_df.rows) \subseteq SymbolsOf(ItemsOfWrite)
    /\ ppc = "done" =>
           /\ OneRowPerSymbol(policy_summary_csv.rows)
           /\ SymbolsOf(policy_summary_csv.rows) \subseteq SymbolsOf(p_details.rows)
    /\ fpc \in {"raw_written", "ranked_written", "done"} =>
           /\ OneRowPerSymbol(raw_csv.rows)
           /\ SymbolsOf(raw_csv.rows) \subseteq SymbolsOf(f_universe)
    /\ fpc \in {"ranked_written", "done"} =>
           /\ OneRowPerSymbol(ranked_csv.rows)
           /\ SymbolsOf(ranked_csv.rows) \subseteq SymbolsOf(f_universe)

\* what holds of the code: every part of C15 but the two inclusions of the
\* news summaries, which hold when the run's own fetch brought items
OneRowPerSymbolInUniverseButPreserved ==
    /\ IsSummaryWrite =>
           /\ OneRowPerSymbol(n_write.new_df.rows)
           /\ ItemsOfWrite # <<>> =>
                  /\ SymbolsOf(n_write.new_df.rows) \subseteq n_universe
                  /\ SymbolsOf(n_write.new_df.rows) = SymbolsOf(ItemsOfWrite)
    /\ ppc = "done" =>
           /\ OneRowPerSymbol(policy_summary_csv.rows)
           /\ SymbolsOf(policy_summary_csv.rows) \subseteq SymbolsOf(p_details.rows)
    /\ fpc \in {"raw_written", "ranked_written", "done"} =>
           /\ OneRowPerSymbol(raw_csv.rows)
           /\ SymbolsOf(raw_csv.rows) = SymbolsOf(f_universe)
    /\ fpc \in {"ranked_written", "done"} =>
           /\ OneRowPerSymbol(ranked_csv.rows)
           /\ SymbolsOf(ranked_csv.rows) = SymbolsOf(f_universe)

\* a preserve-mode run over a smaller universe, whose fetch brought nothing,
\* has written a summary with a symbol outside its universe
PreservedSummaryOutsideUniverse ==
    /\ IsSummaryWrite
    /\ n_write.preserve
    /\ ItemsOfWrite = <<>>
    /\ n_write.after = [exists |-> TRUE, columns |-> n_write.new_df.columns,
                        rows |-> n_write.new_df.rows]
    /\ ~(SymbolsOf(n_write.after.rows) \subseteq n_universe)

(***************************************************************************)
(* Claims about fatal configuration errors                                 *)
(***************************************************************************)

FundOutputs == <<raw_csv, ranked_csv, top_csv>>

PolicyOutputs == <<policy_summary_csv, policy_evidence_csv>>

\* C16: a run that finds its universe file without a required column (news
\* and fundamentals) or its source details file missing (policy) ends with
\* the error in its first step: no fetch has been made, no output file has
\* changed, and nothing of the run follows the error.
C16_ConfigErrorAbortsFirst ==
    [][/\ (fpc' # fpc /\ universe_csv.columns # {"symbol", "company_name"}) =>
              fpc' = "config_error"
       /\ fpc' = "config_error" =>
              /\ fpc \in {"idle", "done", "failed", "config_error"}
              /\ FundOutputs' = FundOutputs
              /\ f_fetched' = f_fetched /\ f_fresh' = f_fresh
       /\ (fpc = "config_error" /\ fpc' # fpc) => fpc' = "loaded"
       /\ npc' = "config_error" =>
              /\ npc \in {"idle", "done", "config_error"}
              /\ NewsFiles' = NewsFiles
              /\ n_company_items' = n_company_items /\ n_ceo_items' = n_ceo_items
       /\ (npc = "config_error" /\ npc' # npc) => npc' = "fetched"
       /\ (ppc' # ppc /\ ppc \in {"idle", "done", "no_file", "bad_columns"}
              /\ ~source_details_csv.exists) => ppc' = "no_file"
       /\ ppc' \in {"no_file", "bad_columns"} =>
              /\ ppc \in {"idle", "done", "no_file", "bad_columns"}
              /\ PolicyOutputs' = PolicyOutputs
       /\ (ppc \in {"no_file", "bad_columns"} /\ ppc' # ppc) =>
              ppc' \in {"no_file", "bad_columns", "read"}
      ]_vars

\* a fundamentals run has ended with the error of the universe file while
\* the three outputs of an earlier run are on disk
C16_Witness ==
    /\ fpc = "config_error"
    /\ raw_csv.exists
    /\ ranked_csv.exists
    /\ top_csv.exists

\* a news run has ended with the error while outputs of an earlier run exist
NewsConfigErrorAfterRun ==
    /\ npc = "config_error"
    /\ NonEmptyTable(company_summary_csv)

\* a policy run has found its source file missing while outputs of an
\* earlier run exist
PolicyNoFileAfterRun ==
    /\ ppc = "no_file"
    /\ policy_summary_csv.exists
    /\ policy_evidence_csv.exists

(***************************************************************************)
(* Claims about the order of the ranked table and the top-N slice (SpecFund) *)
(***************************************************************************)

\* the four sort keys of a ranked row, each as a number: an absent value is
\* below every present value
C18_Keys(row) ==
    LET num(x) == IF x = <<>> THEN 0 - 1000000 ELSE x[1]
    IN  <<row.score, num(row.company_news_sentiment), num(row.ceo_commentary_sentiment),
          num(row.market_cap)>>

\* whether key tuple a is lexicographically greater than b
C18_Greater(a, b) ==
    \E i \in 1..4 : a[i] > b[i] /\ \A j \in 1..(i - 1) : a[j] = b[j]

\* C18: the ranked table is in descending lexicographic order of (score,
\* company_news_sentiment, ceo_commentary_sentiment, market_cap), an absent
\* value below every present one; the top-N file holds the first N rows of
\* the ranked table, or all of them when there are fewer.
C18_RankedOrderAndTopN ==
    /\ fpc \in {"ranked_written", "done"} =>
           \A i, j \in 1..Len(ranked_csv.rows) :
               i < j => ~C18_Greater(C18_Keys(ranked_csv.rows[j]), C18_Keys(ranked_csv.rows[i]))
    /\ fpc = "done" =>
           /\ top_csv.exists
           /\ top_csv.columns = ranked_csv.columns
           /\ Len(top_csv.rows) = (IF Len(ranked_csv.rows) < TopN THEN Len(ranked_csv.rows)
                                   ELSE TopN)
           /\ \A i \in 1..Len(top_csv.rows) : top_csv.rows[i] = ranked_csv.rows[i]

\* a run has ended with more than N ranked rows, among them two of equal
\* score of which the upper has a company sentiment and the lower has none
C18_Witness ==
    /\ fpc = "done"
    /\ Len(ranked_csv.rows) > TopN
    /\ \E i \in 1..(Len(ranked_csv.rows) - 1) :
           /\ ranked_csv.rows[i].score = ranked_csv.rows[i + 1].score
           /\ ranked_csv.rows[i].company_news_sentiment # <<>>
           /\ ranked_csv.rows[i + 1].company_news_sentiment = <<>>

\* a run has ended with fewer ranked rows than N
FewerRowsThanTopN ==
    /\ fpc = "done"
    /\ ranked_csv.rows # <<>>
    /\ Len(ranked_csv.rows) < TopN


---------------------------------------------------------------------------
(* Output files are written whole: report.py lines 175-216, news/report.py *)
(* _write_output, policy_report.py lines 136-137, 158-159, 205-206.  A      *)
(* to_csv is one step.                                                       *)

SymbolColumn(rows) == [i \in 1..Len(rows) |-> rows[i].symbol]

\* the merged table: a row for every symbol of the run's universe, in order
C19_CompleteRaw(file) ==
    /\ file.exists
    /\ "symbol" \in file.columns
    /\ SymbolColumn(file.rows) = UniverseKeys(f_universe)

\* the ranking: the columns of the ranking, a row with every column for every
\* symbol of the run's universe
C19_CompleteRanked(file) ==
    /\ file.exists
    /\ file.columns = RankedColumns
    /\ Len(file.rows) = Len(f_universe)
    /\ SymbolsOf(file.rows) = SymbolsOf(f_universe)
    /\ \A i \in 1..Len(file.rows) : DOMAIN file.rows[i] = RankedColumns

\* a news details table: a row for every item fetched
C19_CompleteDetails(file, items) ==
    /\ file.exists
    /\ file.columns = DetailsColumns
    /\ SymbolColumn(file.rows) = SymbolColumn(items)

\* a news summary table: one row for every symbol of the details
C19_CompleteSummary(file, details) ==
    /\ file.exists
    /\ file.columns = SummaryColumns
    /\ OneRowPerSymbol(file.rows)
    /\ SymbolsOf(file.rows) = SymbolsOf(details.rows)

C19_FundPart ==
    /\ raw_csv' # raw_csv => (fpc' = "raw_written" /\ C19_CompleteRaw(raw_csv'))
    /\ ranked_csv' # ranked_csv =>
           (fpc' = "ranked_written" /\ C19_CompleteRanked(ranked_csv') /\ ranked_csv' = ToCsv(f_df'))
    /\ top_csv' # top_csv =>
           /\ fpc' = "done"
           /\ top_csv'.exists
           /\ top_csv'.columns = ranked_csv.columns
           /\ top_csv'.rows = SubSeq(ranked_csv.rows, 1, Min2(TopN, Len(ranked_csv.rows)))
    /\ fpc' \in {"failed", "config_error"} => FundOutputs' = FundOutputs

C19_NewsPart ==
    /\ company_details_csv' # company_details_csv =>
           (npc' = "company_details_written"
            /\ C19_CompleteDetails(company_details_csv', n_company_items))
    /\ ceo_details_csv' # ceo_details_csv =>
           (npc' = "ceo_details_written" /\ C19_CompleteDetails(ceo_details_csv', n_ceo_items))
    /\ company_summary_csv' # company_summary_csv =>
           (npc' = "company_summary_written"
            /\ C19_CompleteSummary(company_summary_csv', n_company_details))
    /\ ceo_summary_csv' # ceo_summary_csv =>
           (npc' = "done" /\ C19_CompleteSummary(ceo_summary_csv', n_ceo_details))
    /\ npc' = "config_error" => NewsFiles' = NewsFiles

C19_PolicyPart ==
    /\ policy_summary_csv' # policy_summary_csv =>
           /\ ppc' = "summary_written"
           /\ policy_summary_csv'.exists
           /\ policy_summary_csv'.columns = PolicySummaryColumns
           /\ OneRowPerSymbol(policy_summary_csv'.rows)
           /\ SymbolsOf(policy_summary_csv'.rows) = SymbolsOf(C11_Kept)
    /\ policy_evidence_csv' # policy_evidence_csv =>
           /\ ppc' = "done"
           /\ policy_evidence_csv'.exists
           /\ Len(policy_evidence_csv'.rows) = Len(C11_Kept)
    /\ ppc' \in {"no_file", "bad_columns"} => PolicyOutputs' = PolicyOutputs

RawNewRankedOld ==
    /\ fpc = "raw_written"
    /\ ranked_csv.exists
    /\ SymbolsOf(ranked_csv.rows) # SymbolsOf(raw_csv.rows)


---------------------------------------------------------------------------
(* SpecNewsPrior: runs of generate_30d_news_and_ceo_reports over output     *)
(* paths that hold anything before the first run: no file, a file that is   *)
(* not a CSV, or a table of an earlier use of the path.                      *)

PriorItems == <<NewsItem(3, 20, "p"), NewsItem(3, 0 - 30, "q")>>

PriorDetailsFiles == {NoFile, ZeroByteFile, ToCsv(DetailsFrame(PriorItems))}

PriorSummaryFiles == {NoFile, ZeroByteFile, ToCsv(Summarize(DetailsFrame(PriorItems)))}

NewsPriorInit ==
    /\ ScoreIdle /\ FundIdle /\ CollIdle /\ PolicyIdle /\ UnitIdle /\ RetryIdle
    /\ npc = "idle"
    /\ n_universe = {}
    /\ n_force_refresh = FALSE
    /\ n_company_items = <<>>
    /\ n_ceo_items = <<>>
    /\ n_company_details = NoFrame
    /\ n_ceo_details = NoFrame
    /\ n_write = NoWrite
    /\ company_details_csv \in PriorDetailsFiles
    /\ ceo_details_csv \in PriorDetailsFiles
    /\ company_summary_csv \in PriorSummaryFiles
    /\ ceo_summary_csv \in PriorSummaryFiles

SpecNewsPrior == NewsPriorInit /\ [][NewsNext]_vars

\* the summary file holds one row for each symbol of the details file, with
\* the counts and the mean of that symbol's details rows
C21_Aggregation(detailsFile, summaryFile) ==
    /\ detailsFile.exists
    /\ summaryFile.exists
    /\ OneRowPerSymbol(summaryFile.rows)
    /\ SymbolsOf(summaryFile.rows) = SymbolsOf(detailsFile.rows)
    /\ (summaryFile.rows = <<>>) <=> (detailsFile.rows = <<>>)
    /\ \A i \in 1..Len(summaryFile.rows) :
           LET r == summaryFile.rows[i]
               g == RowsOfSymbol(detailsFile.rows, r.symbol)
           IN  /\ r.news_count = Len(g)
               /\ r.positive_count = CountLabel(g, "positive")
               /\ r.neutral_count = CountLabel(g, "neutral")
               /\ r.negative_count = CountLabel(g, "negative")
               /\ r.avg_sentiment = <<SumOf([k \in 1..Len(g) |-> g[k].sentiment_score]), Len(g)>>

\* C21 as stated: after every run, whatever the files were before, each
\* kind's summary file is the per-symbol aggregation of its details file
C21_SummaryIsAggregationOfDetails ==
    npc = "done" =>
        /\ C21_Aggregation(company_details_csv, company_summary_csv)
        /\ C21_Aggregation(ceo_details_csv, ceo_summary_csv)

\* the run in preserve mode fetched nothing of the kind, found no details to
\* keep and wrote the empty details table, and kept a summary that was there
C21_SummaryKept(items, detailsFile, summaryFile) ==
    /\ ~n_force_refresh
    /\ items = <<>>
    /\ detailsFile.exists /\ detailsFile.rows = <<>>
    /\ NonEmptyTable(summaryFile)

\* C21 amended: after every run each kind's summary file is the per-symbol
\* aggregation of its details file, unless the run was in preserve mode,
\* fetched nothing of that kind and found no non-empty details table on disk:
\* then a non-empty summary table already on disk stays.
C21_AggregationUnlessSummaryKept ==
    npc = "done" =>
        /\ \/ C21_Aggregation(company_details_csv, company_summary_csv)
           \/ C21_SummaryKept(n_company_items, company_details_csv, company_summary_csv)
        /\ \/ C21_Aggregation(ceo_details_csv, ceo_summary_csv)
           \/ C21_SummaryKept(n_ceo_items, ceo_details_csv, ceo_summary_csv)

\* a run in preserve mode: nothing fetched for the companies, the details kept
\* and summarised again; three items for the CEOs, summarised in two rows
C21_Witness ==
    /\ npc = "done"
    /\ ~n_force_refresh
    /\ n_company_items = <<>>
    /\ NonEmptyTable(company_details_csv)
    /\ C21_Aggregation(company_details_csv, company_summary_csv)
    /\ Len(n_ceo_items) = 3
    /\ Len(ceo_summary_csv.rows) = 2
    /\ C21_Aggregation(ceo_details_csv, ceo_summary_csv)

\* after a run the details table is empty and the summary is not
SummaryKeptOverEmptyDetails ==
    /\ npc = "done"
    /\ C21_SummaryKept(n_company_items, company_details_csv, company_summary_csv)


---------------------------------------------------------------------------
(* The order of the writes of one run, and what a run that raises leaves:   *)
(* report.py lines 175-216, news/report.py lines 179-194.                    *)

C22_FundPart ==
    /\ raw_csv' # raw_csv =>
           /\ fpc = "fetched" /\ fpc' = "raw_written"
           /\ f_df' = NoFrame
           /\ ranked_csv' = ranked_csv /\ top_csv' = top_csv
    /\ (f_df' # f_df /\ f_df' # NoFrame) => (fpc = "raw_written" /\ raw_csv' = raw_csv)
    /\ ranked_csv' # ranked_csv =>
           /\ fpc = "raw_written" /\ fpc' = "ranked_written"
           /\ raw_csv' = raw_csv /\ top_csv' = top_csv
    /\ top_csv' # top_csv =>
           /\ fpc = "ranked_written" /\ fpc' = "done"
           /\ raw_csv' = raw_csv /\ ranked_csv' = ranked_csv
    /\ (fpc = "fetched" /\ fpc' # fpc) => fpc' \in {"raw_written", "failed"}
    /\ (fpc = "raw_written" /\ fpc' # fpc) => fpc' \in {"ranked_written", "failed_after_raw"}
    /\ (fpc = "ranked_written" /\ fpc' # fpc) => fpc' \in {"done", "failed_after_ranked"}
    /\ fpc' \in {"failed"} \cup FundFailedLate => FundOutputs' = FundOutputs
    /\ (fpc' = "failed_after_raw" /\ fpc' # fpc) =>
           (fpc = "raw_written" /\ C19_CompleteRaw(raw_csv'))
    /\ (fpc' = "failed_after_ranked" /\ fpc' # fpc) =>
           (fpc = "ranked_written" /\ C19_CompleteRaw(raw_csv') /\ ranked_csv' = ToCsv(f_df'))

\* the position of the news run before its k-th write, and after it
C22_NewsBefore ==
    <<"fetched", "company_details_written", "ceo_details_written", "company_summary_written">>

C22_NewsAfter ==
    <<"company_details_written", "ceo_details_written", "company_summary_written", "done">>

C22_NewsPaths ==
    <<"company_details_csv", "ceo_details_csv", "company_summary_csv", "ceo_summary_csv">>

C22_NewsPart ==
    /\ \A k \in 1..4 :
           /\ NewsFiles'[k] # NewsFiles[k] =>
                  /\ npc = C22_NewsBefore[k] /\ npc' = C22_NewsAfter[k]
                  /\ \A j \in (1..4) \ {k} : NewsFiles'[j] = NewsFiles[j]
           /\ (npc = C22_NewsBefore[k] /\ npc' # npc) =>
                  \/ npc' = C22_NewsAfter[k]
                  \/ npc' \in NewsFailed
    /\ npc' \in NewsFailed => NewsFiles' = NewsFiles
    /\ \A k \in 1..3 :
           (npc' = (<<"failed_1", "failed_2", "failed_3">>)[k] /\ npc' # npc) =>
               /\ npc = C22_NewsAfter[k]
               /\ n_write'.path = C22_NewsPaths[k]
               /\ NewsFiles'[k] = n_write'.after
    /\ (npc' = "failed_0" /\ npc' # npc) => npc = "fetched"

\* C22: the files of a run are written in one order (raw, ranked, top; company
\* details, CEO details, company summary, CEO summary), the raw file before
\* the ranking is computed, each step changes the file of that step only, and
\* the step in which a run raises changes no file: the files written so far
\* keep what the run wrote, the others what they held.
C22_WriteOrderNoRollback ==
    [][C22_FundPart /\ C22_NewsPart]_vars

\* a run raised after its raw file was written: the raw file is the run's and
\* is not the cached one, the ranking and the top file are the earlier run's
C22_Witness ==
    /\ fpc = "failed_after_raw"
    /\ f_cached.exists
    /\ raw_csv # f_cached
    /\ C19_CompleteRaw(raw_csv)
    /\ ranked_csv.exists /\ top_csv.exists
    /\ SymbolsOf(ranked_csv.rows) # SymbolsOf(raw_csv.rows)

\* a run raised after its ranking was written: the top file is the earlier run's
FailedAfterRanked ==
    /\ fpc = "failed_after_ranked"
    /\ ranked_csv = ToCsv(f_df)
    /\ top_csv.exists
    /\ ~(SymbolsOf(top_csv.rows) \subseteq SymbolsOf(ranked_csv.rows))

\* a news run raised after its two details files were written
NewsFailedAfterTwoWrites ==
    /\ npc = "failed_2"
    /\ NonEmptyTable(company_details_csv) /\ NonEmptyTable(ceo_details_csv)
    /\ company_summary_csv.rows = <<>>
    /\ ceo_summary_csv.rows = <<>>


---------------------------------------------------------------------------
(* SpecMedian: the ranking step of generate_fundamentals_report (lines      *)
(* 185-216) over a raw table in which every symbol has any industry and any *)
(* trailing P/E the feed can give.                                           *)

MedianIndustries == {Absent, Some("X"), Some("Y")}

MedianPes == {Absent, Some(0), Some(120), Some(300), Some(Inf)}

MedianRow(sym, industry, pe) ==
    [FetchedRow(sym, 1) EXCEPT !.industry = industry, !.trailing_pe = pe]

MedianInit ==
    /\ ScoreIdle /\ NewsIdle /\ CollIdle /\ PolicyIdle /\ UnitIdle /\ RetryIdle
    /\ fpc = "raw_written"
    /\ universe_csv = UniverseFile
    /\ f_universe = LoadUniverse(Absent)
    /\ \E industry \in [Symbols -> MedianIndustries], pe \in [Symbols -> MedianPes] :
           raw_csv = ToCsv([columns |-> FundColumns,
                            rows |-> [i \in 1..NumSymbols |-> MedianRow(i, industry[i], pe[i])]])
    /\ f_fetched = <<>>
    /\ f_fresh = NoFrame
    /\ f_use_cache = FALSE
    /\ f_cached = NoFile
    /\ f_df = NoFrame
    /\ ranked_csv = NoFile
    /\ top_csv = NoFile
    /\ company_sent_csv = NoFile
    /\ ceo_sent_csv = NoFile

MedianNext == FRankWriteRanked \/ FWriteTop

SpecMedian == MedianInit /\ [][MedianNext]_vars

C23_Valid(r) == NotNa(r.industry) /\ NotNa(r.trailing_pe) /\ V(r.trailing_pe) > 0

\* the rows of the ranking that are r's peers: valid, and of r's industry
C23_Peers(r) ==
    {i \in 1..Len(ranked_csv.rows) :
        C23_Valid(ranked_csv.rows[i]) /\ ranked_csv.rows[i].industry = r.industry}

C23_Row(r) ==
    /\ C23_Valid(r) =>
           /\ NotNa(r.industry_median_pe)
           /\ V(r.industry_median_pe) > 0
           /\ r.pe_assessment \in {"undervalued_vs_industry", "fair_vs_industry",
                                   "overvalued_vs_industry"}
    /\ r.pe_assessment \in {"low_absolute_pe", "mid_absolute_pe", "high_absolute_pe"} =>
           IsNa(r.industry)
    /\ (C23_Valid(r) /\ Cardinality(C23_Peers(r)) = 1) =>
           /\ r.industry_median_pe = r.trailing_pe
           /\ r.pe_assessment = "fair_vs_industry"

\* C23: in the ranking every row with an industry and a trailing P/E above 0
\* has an industry_median_pe above 0 and one of the three industry-relative
\* assessments; a row with one of the absolute bands has no industry; a row
\* that is the only valid row of its industry has its own P/E as the median
\* and is "fair_vs_industry".
C23_IndustryRelativeScale ==
    fpc \in {"ranked_written", "done"} =>
        \A i \in 1..Len(ranked_csv.rows) : C23_Row(ranked_csv.rows[i])

\* the same for the rows whose P/E is a finite number
FiniteIndustryRelativeScale ==
    fpc \in {"ranked_written", "done"} =>
        \A i \in 1..Len(ranked_csv.rows) :
            ranked_csv.rows[i].trailing_pe # Some(Inf) => C23_Row(ranked_csv.rows[i])

\* a ranking with a lone finite row that is fair, a row on the absolute scale
\* and a row without valid P/E
LoneRowIsFair ==
    /\ fpc = "ranked_written"
    /\ \E i, j, k \in 1..Len(ranked_csv.rows) :
           /\ C23_Valid(ranked_csv.rows[i])
           /\ ranked_csv.rows[i].trailing_pe # Some(Inf)
           /\ Cardinality(C23_Peers(ranked_csv.rows[i])) = 1
           /\ ranked_csv.rows[i].pe_assessment = "fair_vs_industry"
           /\ ranked_csv.rows[j].pe_assessment = "high_absolute_pe"
           /\ ranked_csv.rows[k].pe_assessment = "unavailable_or_loss_making"

\* the only valid row of its industry has P/E inf and is overvalued
LoneInfRowIsOvervalued ==
    /\ fpc = "ranked_written"
    /\ \E i \in 1..Len(ranked_csv.rows) :
           /\ ranked_csv.rows[i].trailing_pe = Some(Inf)
           /\ Cardinality(C23_Peers(ranked_csv.rows[i])) = 1
           /\ ranked_csv.rows[i].industry_median_pe = Some(Inf)
           /\ ranked_csv.rows[i].pe_assessment = "overvalued_vs_industry"


---------------------------------------------------------------------------
(* SpecPolicyMany: runs of generate_policy_benefit_report over a source     *)
(* details file with up to MaxMentions rows of one symbol.                   *)

ManyMentionRows ==
    [symbol : {1}, title : {Some(<<"p">>), Some(<<"x">>)}, link : {"a"},
     published : {"published"}, source : {"source"},
     sentiment_score : {Some(0 - 30), Some(10)}]

PolicyManyInit ==
    /\ ScoreIdle /\ FundIdle /\ NewsIdle /\ CollIdle /\ UnitIdle /\ RetryIdle
    /\ ppc = "idle"
    /\ \E rows \in SeqsUpTo(ManyMentionRows, MaxMentions) :
           source_details_csv = [exists |-> TRUE, columns |-> DetailsColumns, rows |-> rows]
    /\ p_details = NoFrame
    /\ policy_summary_csv = NoFile
    /\ policy_evidence_csv = NoFile

SpecPolicyMany == PolicyManyInit /\ [][PolicyNext]_vars

\* C24: in every row of the policy summary policy_benefit_score is at least
\* 1.5 x scheme_mentions; a row with 3 or more mentions is not "Watch" and a
\* row with 6 or more mentions is "High Policy Benefit".
C24_ScoreAtLeastMentions ==
    ppc \in {"summary_written", "done"} =>
        \A i \in 1..Len(policy_summary_csv.rows) :
            LET r == policy_summary_csv.rows[i]
            IN  /\ r.policy_benefit_score >= 150 * r.scheme_mentions
                /\ r.scheme_mentions >= 3 => r.benefit_bucket # "Watch"
                /\ r.scheme_mentions >= 6 => r.benefit_bucket = "High Policy Benefit"

\* six matching rows of negative sentiment: the score is 9.0, the bucket High
C24_Witness ==
    /\ ppc = "done"
    /\ Len(p_details.rows) = 6
    /\ Len(policy_summary_csv.rows) = 1
    /\ policy_summary_csv.rows[1].scheme_mentions = 6
    /\ policy_summary_csv.rows[1].policy_benefit_score = 900
    /\ policy_summary_csv.rows[1].benefit_bucket = "High Policy Benefit"

\* three matching rows of negative sentiment among six: 4.5, Potential Beneficiary
ThreeMentionsPotential ==
    /\ ppc = "done"
    /\ Len(p_details.rows) = 6
    /\ Len(policy_summary_csv.rows) = 1
    /\ policy_summary_csv.rows[1].scheme_mentions = 3
    /\ policy_summary_csv.rows[1].policy_benefit_score = 450
    /\ policy_summary_csv.rows[1].benefit_bucket = "Potential Beneficiary"

\* five mentions and a score below 8.0 are not High; two and 3.0 are Watch
FiveMentionsNotHigh ==
    /\ ppc = "done"
    /\ Len(policy_summary_csv.rows) = 1
    /\ policy_summary_csv.rows[1].scheme_mentions = 5
    /\ policy_summary_csv.rows[1].benefit_bucket = "Potential Beneficiary"

TwoMentionsWatch ==
    /\ ppc = "done"
    /\ Len(policy_summary_csv.rows) = 1
    /\ policy_summary_csv.rows[1].scheme_mentions = 2
    /\ policy_summary_csv.rows[1].benefit_bucket = "Watch"

---------------------------------------------------------------------------
(* src/src/fundamentals/fetcher.py: fetch_single_fundamental.  One call is *)
(* followed attempt by attempt; every t.info returns data, returns nothing *)
(* or raises.                                                               *)

MaxRetries == 2

\* sleep(0.15 * (attempt + 1)), in hundredths of a second
SleepBase == 15

Errors == {"e1", "e2"}

\* what one t.info does
AttemptOutcomes ==
    {<<"data", v>> : v \in Variants} \cup {<<"empty">>} \cup {<<"raise", e>> : e \in Errors}

\* the loop without its break
AfterAttempt_NoBreak(outcome) == "sleep"

\* lines 56-60: if info: break; every other attempt goes on to the sleep
AfterAttempt(outcome) == IF outcome[1] = "data" THEN "after_loop" ELSE "sleep"

\* the raise of every call that saw an error
Raises_AnyError(info, last_err) == last_err # Absent

\* line 62: if not info and last_err is not None
Raises(info, last_err) == info = Absent /\ last_err # Absent

\* lines 65-90: the FundamentalRow built from info; an empty info leaves every
\* info.get(...) None, the three arguments of the call are always set
FundamentalRowOf(sym, info) ==
    IF info = Absent
    THEN [NullFundRow(sym) EXCEPT !.yahoo_ticker = Some(<<sym, ".NS">>),
                                  !.company_name = Some(CompanyName(sym))]
    ELSE FetchedRow(sym, V(info))

\* the raw file of an earlier run in which every symbol had data
CachedRawFile(v) ==
    ToCsv([columns |-> FundColumns,
           rows |-> [i \in 1..NumSymbols |-> FetchedRow(i, v)]])

RetryInit ==
    /\ ScoreIdle /\ FundIdle /\ NewsIdle /\ CollIdle /\ PolicyIdle /\ UnitIdle
    /\ RetryIdle

\* fetch_single_fundamental(symbol, company_name, retries): lines 48-52
RCall ==
    /\ rpc \in {"idle", "returned", "raised", "merged"}
    /\ \E sym \in Symbols, retries \in 0..MaxRetries :
           /\ r_symbol' = sym
           /\ r_retries' = retries
    /\ r_attempt' = 0
    /\ r_info' = Absent
    /\ r_last_err' = Absent
    /\ r_log' = <<>>
    /\ r_delays' = <<>>
    /\ r_result' = <<>>
    /\ r_merged' = <<>>
    /\ rpc' = "try"
    /\ UNCHANGED notRetryVars

\* lines 53-59: one pass of the try block
RAttempt ==
    /\ rpc = "try"
    /\ \E outcome \in AttemptOutcomes :
           /\ r_log' = Append(r_log, outcome)
           /\ r_info' = IF outcome[1] = "data" THEN Some(outcome[2])
                        ELSE IF outcome[1] = "empty" THEN Absent
                        ELSE r_info
           /\ r_last_err' = IF outcome[1] = "raise" THEN Some(outcome[2]) ELSE r_last_err
           /\ rpc' = AfterAttempt(outcome)
    /\ UNCHANGED <<r_symbol, r_retries, r_attempt, r_delays, r_result, r_merged>>
    /\ UNCHANGED notRetryVars

\* line 60 and the step of the for loop
RSleep ==
    /\ rpc = "sleep"
    /\ r_delays' = Append(r_delays, SleepBase * (r_attempt + 1))
    /\ r_attempt' = r_attempt + 1
    /\ rpc' = IF r_attempt + 1 < r_retries + 1 THEN "try" ELSE "after_loop"
    /\ UNCHANGED <<r_symbol, r_retries, r_info, r_last_err, r_log, r_result, r_merged>>
    /\ UNCHANGED notRetryVars

\* lines 62-90: raise last_err, or return the row
REnd ==
    /\ rpc = "after_loop"
    /\ IF Raises(r_info, r_last_err)
       THEN /\ r_result' = <<"raise", V(r_last_err)>>
            /\ rpc' = "raised"
       ELSE /\ r_result' = <<"row", FundamentalRowOf(r_symbol, r_info)>>
            /\ rpc' = "returned"
    /\ UNCHANGED <<r_symbol, r_retries, r_attempt, r_info, r_last_err, r_log, r_delays,
                   r_merged>>
    /\ UNCHANGED notRetryVars

\* report.py lines 176-181: the returned row is the fresh table of a run with
\* use_cache, merged with the raw file of an earlier run
RMerge ==
    /\ rpc = "returned"
    /\ \E v \in Variants :
           r_merged' = MergeWithCache(LoadUniverse(Absent),
                                      DataFrameOfRows(<<r_result[2]>>, FundColumns),
                                      CachedRawFile(v))
    /\ rpc' = "merged"
    /\ UNCHANGED <<r_symbol, r_retries, r_attempt, r_info, r_last_err, r_log, r_delays,
                   r_result>>
    /\ UNCHANGED notRetryVars

RetryNext == RCall \/ RAttempt \/ RSleep \/ REnd \/ RMerge

SpecRetry == RetryInit /\ [][RetryNext]_vars

\* the interpreter runs the call on: a t.info that was started returns or
\* raises, a sleep ends, and the statements after the loop are executed
SpecRetryFair ==
    SpecRetry /\ WF_vars(RAttempt) /\ WF_vars(RSleep) /\ WF_vars(REnd)

\* the attempts that returned data, returned nothing, raised
DataAttempts == {i \in 1..Len(r_log) : r_log[i][1] = "data"}
EmptyAttempts == {i \in 1..Len(r_log) : r_log[i][1] = "empty"}
RaisingAttempts == {i \in 1..Len(r_log) : r_log[i][1] = "raise"}

CallEnded == rpc \in {"returned", "raised", "merged"}

\* at most retries + 1 attempts; data only as the last attempt; one sleep
\* after every attempt without data and none after data; the k-th sleep lasts
\* SleepBase * k, longer than the one before
RetryBounded ==
    /\ Len(r_log) <= r_retries + 1
    /\ \A i \in DataAttempts : i = Len(r_log)
    /\ \A k \in 1..Len(r_delays) : r_delays[k] = SleepBase * k
    /\ \A k \in 1..(Len(r_delays) - 1) : r_delays[k] < r_delays[k + 1]
    /\ rpc \in {"after_loop", "returned", "raised", "merged"}
          => Len(r_delays) = Cardinality(EmptyAttempts \cup RaisingAttempts)
    /\ rpc = "try" => Len(r_delays) = Len(r_log)
    /\ (rpc \in {"after_loop", "returned", "raised", "merged"} /\ DataAttempts = {})
          => Len(r_log) = r_retries + 1

\* C17: a call with retry count r makes at most r + 1 attempts and none after
\* the first attempt that returned data, sleeps SleepBase * (attempt + 1)
\* after every attempt without data, and every call that was started ends
C17_RetryLoop ==
    /\ []RetryBounded
    /\ (rpc = "try") ~> CallEnded

\* a call with two retries sleeps after an empty and after a raising attempt
\* and stops at the data of the third
C17_Witness ==
    /\ rpc = "returned"
    /\ r_retries = 2
    /\ Len(r_log) = 3
    /\ r_log[1][1] = "empty"
    /\ r_log[2][1] = "raise"
    /\ r_log[3][1] = "data"
    /\ r_delays = <<SleepBase, 2 * SleepBase>>

\* a call whose first attempt has data makes no other attempt, retries left
StopsAtFirstData ==
    /\ CallEnded
    /\ r_retries = MaxRetries
    /\ Len(r_log) = 1
    /\ r_delays = <<>>

\* a call that never had data sleeps after its last attempt too
SleepsAfterLastAttempt ==
    /\ rpc = "raised"
    /\ Len(r_delays) = r_retries + 1

LastOf(S) == CHOOSE i \in S : \A j \in S : j <= i

FundamentalsFields == FundColumns \ {"symbol", "yahoo_ticker", "company_name"}

\* C20: the call raises exactly when no attempt returned data and at least
\* one raised, with the error of the last raising attempt; when every attempt
\* returned nothing it returns a row with every fundamentals field absent, and
\* merged with a cache that row takes the place of the symbol's cached row
C20_RaiseOrNullRow ==
    CallEnded =>
        /\ (rpc = "raised") <=> (DataAttempts = {} /\ RaisingAttempts # {})
        /\ rpc = "raised" => r_result = <<"raise", r_log[LastOf(RaisingAttempts)][2]>>
        /\ (DataAttempts = {} /\ RaisingAttempts = {}) =>
               /\ r_result[1] = "row"
               /\ r_result[2].symbol = r_symbol
               /\ \A f \in FundamentalsFields : r_result[2][f] = Absent
               /\ rpc = "merged" =>
                      /\ r_merged.ok
                      /\ RowsOfSymbol(r_merged.df.rows, r_symbol) = <<r_result[2]>>

\* two empty attempts, the null row returned, and the cached row gone
C20_Witness ==
    /\ rpc = "merged"
    /\ r_log = <<<<"empty">>, <<"empty">>>>
    /\ r_merged.ok
    /\ \A i \in 1..Len(r_merged.df.rows) :
           (r_merged.df.rows[i].trailing_pe = Absent) <=> (r_merged.df.rows[i].symbol = r_symbol)
    /\ r_symbol = 1

\* the error raised is not that of the final attempt
RaisedErrorNotOfFinalAttempt ==
    /\ rpc = "raised"
    /\ r_log = <<<<"raise", "e1">>, <<"empty">>>>
    /\ r_result = <<"raise", "e1">>

\* an attempt raised and the call still returned a row
ReturnsAfterError ==
    /\ rpc = "returned"
    /\ RaisingAttempts # {}
    /\ DataAttempts # {}

====
